---------------------------- MODULE Spec2Model ----------------------------
(***************************************************************************)
(* Verification model of the x402-oracle programs:                         *)
(*   seda-core/oracle-program            tally_phase.rs, execution_phase.rs*)
(*   seda-cronos/examples/caplight-eod-market-price   tally_phase.rs       *)
(*   seda-cronos/examples/evm-price-feed execution_phase.rs                *)
(*                                                                         *)
(* Integer widths.  The programs compute on u128 and on the 256-bit U256   *)
(* of ethereum_types.  TLC's integers are 32-bit, so both types are        *)
(* modelled at a reduced width that keeps their relation: a u128 is two    *)
(* "bytes" of base ByteBase, a U256 is four, so U256_MAX + 1 is the square *)
(* of U128_MAX + 1.  Every operation keeps the overflow behaviour of the   *)
(* source at that width: U256 `+` and `*` panic, saturating_mul clamps,    *)
(* u128 `+` panics or wraps depending on the build.  The decimal scale     *)
(* (SCALE, 10^6 in the source, 10^3 here), the token decimals (18/8/6 in   *)
(* the source, 2/1/1 here) and the lengths of hexadecimal words are        *)
(* reduced with the widths; the definitions that carry a reduced value say *)
(* so.  Operators never form a product above U256_MAX, so that no TLC      *)
(* integer overflows.                                                      *)
(***************************************************************************)
EXTENDS Integers, Sequences, FiniteSets, TLC

(***************************************************************************)
(* Bounds of the model                                                     *)
(***************************************************************************)
ByteBase == 128
MaxReveals == 4

U128_MAX == ByteBase * ByteBase - 1
U256_MAX == (U128_MAX + 1) * (U128_MAX + 1) - 1

PANIC == -1

(***************************************************************************)
(* ethereum_types::U256 arithmetic.  `+` and `*` panic on overflow in      *)
(* every build; a panicking operand makes the whole expression panic.      *)
(***************************************************************************)
U256_add(a, b) ==
    IF a = PANIC \/ b = PANIC THEN PANIC
    ELSE IF a > U256_MAX - b THEN PANIC
    ELSE a + b

U256_div(a, b) ==
    IF a = PANIC \/ b = PANIC \/ b = 0 THEN PANIC
    ELSE a \div b

U256_mul(a, b) ==
    IF a = PANIC \/ b = PANIC THEN PANIC
    ELSE IF a = 0 \/ b = 0 THEN 0
    ELSE IF a > U256_MAX \div b THEN PANIC
    ELSE a * b

\* U256::saturating_mul clamps at the maximum instead of panicking
saturating_mul(a, b) ==
    IF a = 0 \/ b = 0 THEN 0
    ELSE IF a > U256_MAX \div b THEN U256_MAX
    ELSE a * b

saturating_sub(a, b) == IF a > b THEN a - b ELSE 0

Ok(value) == [ok |-> TRUE, v |-> value, err |-> ""]
Err(message) == [ok |-> FALSE, v |-> 0, err |-> message]
\* a panic inside a function that returns Result
Panic == [ok |-> FALSE, v |-> PANIC, err |-> "panic"]

(***************************************************************************)
(* ethabi encoding of one int256[] value: the head word holds the offset   *)
(* of the array, the array is its length word followed by one word per     *)
(* element.  A payload is a sequence of 256-bit words; offsets are counted *)
(* in words.                                                               *)
(***************************************************************************)
\* variant: the head word with the offset of the array is left out
abi_encode_int_array_headless(values) == <<Len(values)>> \o values

abi_encode_int_array(values) == <<1, Len(values)>> \o values

\* ethabi::decode(&[Array(Int(256))], bytes): Err on a payload too short for
\* its head, its length word or its elements.
abi_decode_int_array(bytes) ==
    IF Len(bytes) < 1 THEN [ok |-> FALSE, tokens |-> <<>>]
    ELSE LET at == bytes[1] + 1 IN
         IF at > Len(bytes) THEN [ok |-> FALSE, tokens |-> <<>>]
         ELSE LET n == bytes[at] IN
              IF at + n > Len(bytes) THEN [ok |-> FALSE, tokens |-> <<>>]
              ELSE [ok |-> TRUE, tokens |-> SubSeq(bytes, at + 1, at + n)]

(***************************************************************************)
(* seda-core tally_phase.rs                                                *)
(***************************************************************************)
ARITY == 4

\* variant: the field count of the array is not checked
decode_values_any_arity(bytes) ==
    LET decoded == abi_decode_int_array(bytes) IN
    IF ~decoded.ok THEN [ok |-> FALSE, values |-> <<>>]
    ELSE [ok |-> TRUE, values |-> decoded.tokens]

decode_values(bytes) ==
    LET decoded == abi_decode_int_array(bytes) IN
    IF ~decoded.ok THEN [ok |-> FALSE, values |-> <<>>]
    ELSE IF Len(decoded.tokens) # ARITY THEN [ok |-> FALSE, values |-> <<>>]
    ELSE [ok |-> TRUE, values |-> decoded.tokens]

\* slice::sort on a column: ascending, by the unsigned order of U256/u128.
RECURSIVE sort_insert(_, _)
sort_insert(sorted, x) ==
    IF sorted = <<>> THEN <<x>>
    ELSE IF x < Head(sorted) THEN <<x>> \o sorted
    ELSE <<Head(sorted)>> \o sort_insert(Tail(sorted), x)

\* variant: the column is left in reveal order
sort_skipped(s) == s

RECURSIVE sort(_)
sort(s) ==
    IF s = <<>> THEN <<>>
    ELSE sort_insert(sort(SubSeq(s, 1, Len(s) - 1)), s[Len(s)])

\* values is sorted and non-empty; Rust indices are 0-based.
median_sorted(values) ==
    LET mid == Len(values) \div 2 IN
    IF Len(values) % 2 = 0
    THEN U256_div(U256_add(values[mid], values[mid + 1]), 2)
    ELSE values[mid + 1]

column(values, idx) == [r \in 1..Len(values) |-> values[r][idx]]

median_each_field(values) ==
    IF values = <<>>
    THEN [kind |-> "err", msg |-> "No values to aggregate", medians |-> <<>>]
    ELSE IF ~(\A r \in 1..Len(values) : Len(values[r]) = ARITY)
    THEN [kind |-> "err", msg |-> "Mismatched value length in reveals", medians |-> <<>>]
    ELSE LET medians == [idx \in 1..ARITY |-> median_sorted(sort(column(values, idx)))] IN
         IF \E idx \in 1..ARITY : medians[idx] = PANIC
         THEN [kind |-> "panic", msg |-> "arithmetic operation overflow", medians |-> <<>>]
         ELSE [kind |-> "ok", msg |-> "", medians |-> medians]


(***************************************************************************)
(* caplight-eod-market-price tally_phase.rs                                *)
(***************************************************************************)
\* reveal.as_slice().try_into::<[u8; 16]>() then u128::from_le_bytes: the
\* slice must have exactly the width of a u128, least significant byte first.
u128_from_le_bytes(bytes) ==
    IF Len(bytes) # 2 THEN [ok |-> FALSE, price |-> 0]
    ELSE [ok |-> TRUE, price |-> bytes[1] + ByteBase * bytes[2]]

\* u128::midpoint: the average rounded down, computed without overflow.
u128_midpoint(a, b) == a + (b - a) \div 2

\* data is non-empty when tally_phase calls it.
median(data) ==
    LET m == Len(data)
        sorted_data == sort(data)
    IN  IF m % 2 = 0
        THEN u128_midpoint(sorted_data[m \div 2], sorted_data[m \div 2 + 1])
        ELSE sorted_data[m \div 2 + 1]

(***************************************************************************)
(* Text.  A string is the sequence of the ASCII codes of its characters.   *)
(***************************************************************************)
to_ascii_lowercase(c) == IF c \in 65..90 THEN c + 32 ELSE c
to_ascii_uppercase(c) == IF c \in 97..122 THEN c - 32 ELSE c

eq_ignore_ascii_case(a, b) ==
    /\ Len(a) = Len(b)
    /\ \A i \in 1..Len(a) : to_ascii_lowercase(a[i]) = to_ascii_lowercase(b[i])

to_uppercase(str) == [i \in 1..Len(str) |-> to_ascii_uppercase(str[i])]
to_lowercase(str) == [i \in 1..Len(str) |-> to_ascii_lowercase(str[i])]

\* "0x"
Prefix0x == <<48, 120>>

strip_0x(value) ==
    IF Len(value) >= 2 /\ SubSeq(value, 1, 2) = Prefix0x
    THEN SubSeq(value, 3, Len(value))
    ELSE value

\* An address has ADDRESS_HEX_LEN hexadecimal digits (40 in the source) and an
\* eth_call result word WORD_HEX_LEN (64 in the source).
ADDRESS_HEX_LEN == 4
WORD_HEX_LEN == 6

\* "0x5C7F...", "0xc212..."
WCRO_ADDRESS == Prefix0x \o <<53, 67, 55, 70>>
USDC_ADDRESS == Prefix0x \o <<99, 50, 49, 50>>

parse_address_from_32byte(value) ==
    LET cleaned == strip_0x(value) IN
    IF Len(cleaned) # WORD_HEX_LEN THEN [some |-> FALSE, address |-> <<>>]
    ELSE [some |-> TRUE,
          address |-> Prefix0x \o SubSeq(cleaned, WORD_HEX_LEN - ADDRESS_HEX_LEN + 1, WORD_HEX_LEN)]

(***************************************************************************)
(* seda-core execution_phase.rs: constants.  SCALE is 10^SCALE_DIGITS      *)
(* (10^6 in the source); the thresholds keep their ratio to SCALE.         *)
(***************************************************************************)
SCALE_DIGITS == 3

RECURSIVE Pow10(_)
Pow10(n) == IF n = 0 THEN 1 ELSE 10 * Pow10(n - 1)

SCALE == Pow10(SCALE_DIGITS)
BLOCKS_24H_ESTIMATE == 3
LIQUIDITY_TARGET_USDC_1E6 == SCALE \div 2
LIQUIDITY_WARN_SCORE == SCALE \div 5
CONFIDENCE_WARN_SCORE == SCALE \div 5
DIVERGENCE_WARN_1E6 == SCALE \div 20
SLIPPAGE_LIMIT_1E6 == SCALE \div 100
LIQUIDITY_WEIGHT == (SCALE \div 10) * 6
TIME_WEIGHT == (SCALE \div 10) * 4

\* PairConfig of the full analytics pipeline (base 18 and quote 6 decimals
\* in the source)
CorePairConfig ==
    [pair |-> "WCRO_USDC_PAIR", base |-> WCRO_ADDRESS, quote |-> USDC_ADDRESS,
     base_decimals |-> 2, quote_decimals |-> 1]

\* 10^18 in the source: 10^(base_decimals - quote_decimals) * SCALE
EFFECTIVE_PRICE_UNIT == Pow10(CorePairConfig.base_decimals - CorePairConfig.quote_decimals) * SCALE

(***************************************************************************)
(* seda-core execution_phase.rs: arithmetic helpers                        *)
(***************************************************************************)
RECURSIVE pow10_u256(_)
pow10_u256(exp) ==
    IF exp = 0 THEN 1 ELSE saturating_mul(pow10_u256(exp - 1), 10)

u256_to_u128(value) ==
    IF value = PANIC THEN Panic
    ELSE IF value > U128_MAX THEN Err("Value exceeds u128 range")
    ELSE Ok(value)

\* U256::as_u128 panics when the value does not fit
as_u128(value) ==
    IF value = PANIC \/ value > U128_MAX THEN PANIC ELSE value

abs_diff_u128(a, b) == IF a >= b THEN a - b ELSE b - a

Min(a, b) == IF a <= b THEN a ELSE b

ratio_scaled_u128(numerator, denominator) ==
    IF denominator = 0 THEN Err("Division by zero")
    ELSE LET value == as_u128(U256_div(U256_mul(numerator, SCALE), denominator)) IN
         IF value = PANIC THEN Panic ELSE Ok(Min(value, SCALE))

(***************************************************************************)
(* seda-core execution_phase.rs: token order and price derivation          *)
(***************************************************************************)
quote_reserve(reserves, token0, config) ==
    IF eq_ignore_ascii_case(token0, config.base) THEN Ok(reserves.reserve1)
    ELSE IF eq_ignore_ascii_case(token0, config.quote) THEN Ok(reserves.reserve0)
    ELSE Err("token0 mismatch for pair")

\* variant: reserve0 is the base side whichever token is token0
base_reserve_unswapped(reserves, token0, config) ==
    IF eq_ignore_ascii_case(token0, config.base) THEN Ok(reserves.reserve0)
    ELSE IF eq_ignore_ascii_case(token0, config.quote) THEN Ok(reserves.reserve0)
    ELSE Err("token0 mismatch for pair")

base_reserve(reserves, token0, config) ==
    IF eq_ignore_ascii_case(token0, config.base) THEN Ok(reserves.reserve0)
    ELSE IF eq_ignore_ascii_case(token0, config.quote) THEN Ok(reserves.reserve1)
    ELSE Err("token0 mismatch for pair")

\* lines 177-182: the two operands of the division
price_numerator(config, quote_side) ==
    saturating_mul(saturating_mul(quote_side, pow10_u256(config.base_decimals)), SCALE)

price_denominator(config, base_side) ==
    saturating_mul(base_side, pow10_u256(config.quote_decimals))

\* variant: the base side is not checked before the division
price_of_sides_unchecked(config, base_side, quote_side) ==
    u256_to_u128(U256_div(price_numerator(config, quote_side),
                          price_denominator(config, base_side)))

\* lines 173-185, once the base and quote side are resolved
price_of_sides(config, base_side, quote_side) ==
    IF base_side = 0 THEN Err("Base reserve is zero")
    ELSE u256_to_u128(U256_div(price_numerator(config, quote_side),
                               price_denominator(config, base_side)))

\* variant: reserve0 is taken as the base side whichever token is token0
price_from_reserves_unswapped(config, t0, reserves) ==
    IF eq_ignore_ascii_case(t0, config.base)
    THEN price_of_sides(config, reserves.reserve0, reserves.reserve1)
    ELSE IF eq_ignore_ascii_case(t0, config.quote)
    THEN price_of_sides(config, reserves.reserve0, reserves.reserve1)
    ELSE Err("token0 mismatch for pair")

\* lines 164-186
price_from_reserves(config, t0, reserves) ==
    IF eq_ignore_ascii_case(t0, config.base)
    THEN price_of_sides(config, reserves.reserve0, reserves.reserve1)
    ELSE IF eq_ignore_ascii_case(t0, config.quote)
    THEN price_of_sides(config, reserves.reserve1, reserves.reserve0)
    ELSE Err("token0 mismatch for pair")

(***************************************************************************)
(* seda-core execution_phase.rs: scores, sizing, flags                     *)
(***************************************************************************)
\* variant: the score is not capped when the reserve reaches the target
liquidity_score_uncapped(reserve) ==
    LET target == LIQUIDITY_TARGET_USDC_1E6
        score == as_u128(U256_div(U256_mul(reserve, SCALE), target))
    IN  IF score = PANIC THEN Panic ELSE Ok(score)

liquidity_score(reserve) ==
    LET target == LIQUIDITY_TARGET_USDC_1E6 IN
    IF reserve >= target THEN Ok(SCALE)
    ELSE LET score == as_u128(U256_div(U256_mul(reserve, SCALE), target)) IN
         IF score = PANIC THEN Panic ELSE Ok(score)

temporal_score(delta_1e6) ==
    IF delta_1e6 >= DIVERGENCE_WARN_1E6 THEN 0
    ELSE LET penalty == U256_div(U256_mul(delta_1e6, SCALE), DIVERGENCE_WARN_1E6) IN
         IF penalty = PANIC THEN PANIC ELSE as_u128(saturating_sub(SCALE, penalty))

\* lines 72-75
confidence_of(liquidity, time) ==
    as_u128(U256_div(U256_add(U256_mul(LIQUIDITY_WEIGHT, liquidity),
                              U256_mul(TIME_WEIGHT, time)), SCALE))

FEE_NUMERATOR == 997
FEE_DENOMINATOR == 1000

amm_amount_out(amount_in, reserve_in, reserve_out) ==
    LET amount_in_with_fee == U256_mul(amount_in, FEE_NUMERATOR)
        numerator == U256_mul(amount_in_with_fee, reserve_out)
        denominator == U256_add(U256_mul(reserve_in, FEE_DENOMINATOR), amount_in_with_fee)
    IN  IF numerator = PANIC \/ denominator = PANIC THEN Panic
        ELSE IF denominator = 0 THEN Err("AMM denominator is zero")
        ELSE Ok(numerator \div denominator)

SEARCH_ITERATIONS == 28

\* variant: a probe is taken when its slippage is at or above the bound
within_bound_inverted(slippage, limit) == slippage >= limit

\* line 379: the test of a probed size against the slippage bound
within_bound(slippage, limit) == slippage < limit

\* lines 364-378: the slippage of trading `amount_in`, as the loop computes
\* it; amount_out |-> 0 when nothing comes out of the trade
probe(amount_in, reserve_in, reserve_out, spot_1e6) ==
    LET amount_out == amm_amount_out(amount_in, reserve_in, reserve_out) IN
    IF ~amount_out.ok THEN [ok |-> FALSE, amount_out |-> 0, failure |-> amount_out, slippage |-> 0]
    ELSE IF amount_out.v = 0
    THEN [ok |-> TRUE, amount_out |-> 0, failure |-> Ok(0), slippage |-> 0]
    ELSE
    LET effective_price ==
            u256_to_u128(U256_div(U256_mul(amount_in, EFFECTIVE_PRICE_UNIT), amount_out.v)) IN
    IF ~effective_price.ok
    THEN [ok |-> FALSE, amount_out |-> amount_out.v, failure |-> effective_price, slippage |-> 0]
    ELSE
    LET slippage == ratio_scaled_u128(abs_diff_u128(effective_price.v, spot_1e6), spot_1e6) IN
    IF ~slippage.ok
    THEN [ok |-> FALSE, amount_out |-> amount_out.v, failure |-> slippage, slippage |-> 0]
    ELSE [ok |-> TRUE, amount_out |-> amount_out.v, failure |-> Ok(0), slippage |-> slippage.v]

\* the `for _ in 0..28` loop of max_safe_execution_size, from iteration iter
\* on, with the slippage bound as a parameter
RECURSIVE search_size_within(_, _, _, _, _, _, _, _)
search_size_within(limit, iter, low, high, best, reserve_in, reserve_out, spot_1e6) ==
    IF iter = SEARCH_ITERATIONS THEN u256_to_u128(best)
    ELSE
    LET mid == U256_div(U256_add(low, high), 2) IN
    IF mid = PANIC THEN Panic
    ELSE IF mid = 0 THEN u256_to_u128(best)
    ELSE
    LET probed == probe(mid, reserve_in, reserve_out, spot_1e6) IN
    IF ~probed.ok THEN probed.failure
    ELSE IF probed.amount_out = 0
    THEN search_size_within(limit, iter + 1, low, saturating_sub(mid, 1), best,
                            reserve_in, reserve_out, spot_1e6)
    ELSE IF within_bound(probed.slippage, limit)
    THEN LET next_low == U256_add(mid, 1) IN
         IF next_low = PANIC THEN Panic
         ELSE search_size_within(limit, iter + 1, next_low, high, mid,
                                 reserve_in, reserve_out, spot_1e6)
    ELSE search_size_within(limit, iter + 1, low, saturating_sub(mid, 1), best,
                            reserve_in, reserve_out, spot_1e6)

\* variant: after a size within the bound the lower end is set to that size
search_step_low_at_mid(limit, low, high, best, reserve_in, reserve_out, spot_1e6) ==
    LET mid == U256_div(U256_add(low, high), 2)
        left == [kind |-> "left", mid |-> 0, low |-> low, high |-> high, best |-> best]
    IN  IF mid = PANIC \/ mid = 0 THEN left
        ELSE
        LET probed == probe(mid, reserve_in, reserve_out, spot_1e6) IN
        IF ~probed.ok THEN left
        ELSE IF probed.amount_out > 0 /\ within_bound(probed.slippage, limit)
        THEN [kind |-> "next", mid |-> mid, low |-> mid, high |-> high, best |-> mid]
        ELSE [kind |-> "next", mid |-> mid, low |-> low,
              high |-> saturating_sub(mid, 1), best |-> best]

\* one iteration of the loop of lines 363-387: the loop is left (break, Err
\* or trap), or low, high and best are updated for the next iteration
search_step(limit, low, high, best, reserve_in, reserve_out, spot_1e6) ==
    LET mid == U256_div(U256_add(low, high), 2)
        left == [kind |-> "left", mid |-> 0, low |-> low, high |-> high, best |-> best]
    IN  IF mid = PANIC \/ mid = 0 THEN left
        ELSE
        LET probed == probe(mid, reserve_in, reserve_out, spot_1e6) IN
        IF ~probed.ok THEN left
        ELSE IF probed.amount_out > 0 /\ within_bound(probed.slippage, limit)
        THEN IF U256_add(mid, 1) = PANIC THEN left
             ELSE [kind |-> "next", mid |-> mid, low |-> U256_add(mid, 1),
                   high |-> high, best |-> mid]
        ELSE [kind |-> "next", mid |-> mid, low |-> low,
              high |-> saturating_sub(mid, 1), best |-> best]

\* low, high and best after each completed iteration, from iteration iter on
RECURSIVE search_trace(_, _, _, _, _, _, _, _)
search_trace(limit, iter, low, high, best, reserve_in, reserve_out, spot_1e6) ==
    IF iter = SEARCH_ITERATIONS THEN <<>>
    ELSE LET step == search_step(limit, low, high, best, reserve_in, reserve_out, spot_1e6) IN
         IF step.kind = "left" THEN <<>>
         ELSE <<step>> \o search_trace(limit, iter + 1, step.low, step.high, step.best,
                                       reserve_in, reserve_out, spot_1e6)

search_size(iter, low, high, best, reserve_in, reserve_out, spot_1e6) ==
    search_size_within(SLIPPAGE_LIMIT_1E6, iter, low, high, best,
                       reserve_in, reserve_out, spot_1e6)

\* variant: the search starts from the whole input reserve
sizing_unhalved(limit, reserve_in, reserve_out, spot_1e6) ==
    IF reserve_in = 0 \/ reserve_out = 0 THEN Err("Reserves are zero")
    ELSE search_size_within(limit, 0, 0, reserve_in, 0, reserve_in, reserve_out, spot_1e6)

\* max_safe_execution_size with the slippage bound as a parameter
sizing(limit, reserve_in, reserve_out, spot_1e6) ==
    IF reserve_in = 0 \/ reserve_out = 0 THEN Err("Reserves are zero")
    ELSE search_size_within(limit, 0, 0, reserve_in \div 2, 0, reserve_in, reserve_out, spot_1e6)

max_safe_execution_size(reserve_in, reserve_out, spot_1e6) ==
    sizing(SLIPPAGE_LIMIT_1E6, reserve_in, reserve_out, spot_1e6)

\* variant: the divergence bit is set from the threshold on
build_flags_inclusive(delta_1e6, liquidity, confidence) ==
    (IF delta_1e6 >= DIVERGENCE_WARN_1E6 THEN 1 ELSE 0)
    + (IF liquidity < LIQUIDITY_WARN_SCORE THEN 2 ELSE 0)
    + (IF confidence < CONFIDENCE_WARN_SCORE THEN 4 ELSE 0)

build_flags(delta_1e6, liquidity, confidence) ==
    (IF delta_1e6 > DIVERGENCE_WARN_1E6 THEN 1 ELSE 0)
    + (IF liquidity < LIQUIDITY_WARN_SCORE THEN 2 ELSE 0)
    + (IF confidence < CONFIDENCE_WARN_SCORE THEN 4 ELSE 0)

\* u128::saturating_mul
u128_saturating_mul(a, b) == Min(a * b, U128_MAX)

\* u128 `+`: with overflow checks (debug profile) an overflow panics, without
\* them (release profile) the sum wraps
u128_add(a, b, checks) ==
    IF a + b <= U128_MAX THEN a + b
    ELSE IF checks THEN PANIC
    ELSE (a + b) % (U128_MAX + 1)

\* line 67
fair_price_of(spot, price_24h, checks) ==
    LET sum == u128_add(u128_saturating_mul(spot, 2), price_24h, checks) IN
    IF sum = PANIC THEN PANIC ELSE sum \div 3

(***************************************************************************)
(* State.  program selects which oracle program the run executes; every    *)
(* run is one invocation of one phase and ends with the host's terminal    *)
(* signal in exit.                                                         *)
(***************************************************************************)
VARIABLES
    program,          \* "core_tally" | "caplight_tally" | "core_exec" | "evm_feed" |
                      \* "core_analytics" | "caplight_exec"
    exit,             \* terminal signal of the process
    \* tally phases
    reveals,          \* get_reveals(): the batch of reveal payloads
    tpc,              \* position in tally_phase
    ridx,             \* index of the next reveal of the `for` loop
    revealed_values,  \* revealed_values / revealed_prices
    \* execution phases
    input,            \* Process::get_inputs()
    epc,              \* position in execution_phase
    rpc_log,          \* the remote calls issued so far, in order
    rpc_replies,      \* what each of those calls was answered with
    pair,             \* the validated pair identifier
    token0,           \* token0 address read from the pool
    latest_block,     \* eth_blockNumber
    latest_reserves,  \* reserves (or slot0) at the latest block
    spot_now,         \* price derived from latest_reserves
    reserves_24h,     \* reserves at the 24h-earlier block
    price_24h,        \* price derived from reserves_24h
    overflow_checks,  \* build profile: does u128 `+` panic on overflow
    replication_factor, \* Process::replication_factor() of the data request
    signal,           \* the locals of lines 67-83 computed so far
    caplight_price    \* the price member of the caplight response

tally_vars == <<reveals, tpc, ridx, revealed_values>>
exec_vars == <<input, epc, rpc_log, rpc_replies, pair, token0, latest_block, latest_reserves,
               spot_now, reserves_24h, price_24h, overflow_checks, replication_factor, signal, caplight_price>>
vars == <<program, exit, reveals, tpc, ridx, revealed_values,
          input, epc, rpc_log, rpc_replies, pair, token0, latest_block, latest_reserves,
          spot_now, reserves_24h, price_24h, overflow_checks, replication_factor, signal, caplight_price>>

Running == [kind |-> "running", msg |-> "", result |-> <<>>]
\* Process::success(bytes) and Process::error(bytes) end the process.
ProcessSuccess(bytes) == [kind |-> "success", msg |-> "", result |-> bytes]
ProcessError(m) == [kind |-> "error", msg |-> m, result |-> <<>>]
\* a panic traps the program: no signal is sent
Panicked(m) == [kind |-> "panic", msg |-> m, result |-> <<>>]
\* the phase function returned Err to its caller
ReturnedErr(m) == [kind |-> "returned_err", msg |-> m, result |-> <<>>]

NoConsensus == "No consensus among revealed results"

(***************************************************************************)
(* The reveal payloads a batch is drawn from.                              *)
(***************************************************************************)
CoreRevealPool ==
    { abi_encode_int_array(<<100, 50, 10, 0>>),
      abi_encode_int_array(<<102, 52, 9, 1>>),
      abi_encode_int_array(<<98, 49, 11, 0>>),
      abi_encode_int_array(<<U256_MAX - 1, 1, U256_MAX, 0>>),
      abi_encode_int_array(<<7, 8, 9>>),
      <<>>,
      <<1, 4, 1, 2>> }

CaplightRevealPool ==
    { <<1, 0>>, <<2, 0>>, <<3, 0>>, <<4, 0>>,
      <<ByteBase - 2, ByteBase - 1>>,
      <<1, 2, 3>> }

RECURSIVE SeqsUpTo(_, _)
SeqsUpTo(S, n) ==
    IF n = 0 THEN {<<>>}
    ELSE LET shorter == SeqsUpTo(S, n - 1) IN
         shorter \cup {Append(b, x) : b \in {c \in shorter : Len(c) = n - 1}, x \in S}

\* nothing of lines 67-83 has run: stage counts the statements completed
NoSignal ==
    [stage |-> 0, fair_price |-> 0, liquidity_score |-> 0, delta_1e6 |-> 0,
     time_score |-> 0, confidence_score |-> 0, max_safe_execution_size |-> 0,
     flags |-> 0]

\* no response was parsed
NoPrice == [present |-> FALSE, digits |-> 0, frac |-> 0]

NoReserves == [reserve0 |-> 0, reserve1 |-> 0, fetched |-> FALSE]

\* no execution phase runs
ExecIdle ==
    /\ input = [utf8 |-> TRUE, shape |-> "blank", has_pair |-> FALSE, text |-> <<>>]
    /\ epc = "idle"
    /\ rpc_log = <<>>
    /\ rpc_replies = <<>>
    /\ pair = <<>>
    /\ token0 = <<>>
    /\ latest_block = 0
    /\ latest_reserves = NoReserves
    /\ spot_now = 0
    /\ reserves_24h = NoReserves
    /\ price_24h = 0
    /\ overflow_checks = FALSE
    /\ replication_factor = 1
    /\ signal = NoSignal
    /\ caplight_price = NoPrice

\* no tally phase runs
TallyIdle ==
    /\ reveals = <<>>
    /\ tpc = "idle"
    /\ ridx = 1
    /\ revealed_values = <<>>

InitTally ==
    /\ \/ program = "core_tally" /\ reveals \in SeqsUpTo(CoreRevealPool, MaxReveals)
       \/ program = "caplight_tally" /\ reveals \in SeqsUpTo(CaplightRevealPool, MaxReveals)
    /\ tpc = "start"
    /\ ridx = 1
    /\ revealed_values = <<>>
    /\ exit = Running
    /\ ExecIdle

(***************************************************************************)
(* seda-core tally_phase / tally_phase_inner                               *)
(***************************************************************************)
\* let reveals = get_reveals()?;  an Err reaches tally_phase, which reports it
core_get_reveals ==
    /\ program = "core_tally" /\ tpc = "start"
    /\ \E fetched \in BOOLEAN :
         IF fetched
         THEN tpc' = "loop" /\ exit' = exit
         ELSE tpc' = "done" /\ exit' = ProcessError("Tally error: get_reveals")
    /\ UNCHANGED <<program, reveals, ridx, revealed_values>>
    /\ UNCHANGED exec_vars

\* variant: a reveal that fails to decode ends the tally with an error
core_decode_reveal_abort ==
    /\ program = "core_tally" /\ tpc = "loop" /\ ridx <= Len(reveals)
    /\ LET decoded == decode_values(reveals[ridx]) IN
         IF decoded.ok
         THEN /\ revealed_values' = Append(revealed_values, decoded.values)
              /\ UNCHANGED <<tpc, exit>>
         ELSE /\ exit' = ProcessError("Tally error: Reveal decode failed")
              /\ tpc' = "done"
              /\ UNCHANGED revealed_values
    /\ ridx' = ridx + 1
    /\ UNCHANGED <<program, reveals>>
    /\ UNCHANGED exec_vars

\* one iteration of `for reveal in reveals`
core_decode_reveal ==
    /\ program = "core_tally" /\ tpc = "loop" /\ ridx <= Len(reveals)
    /\ LET decoded == decode_values(reveals[ridx]) IN
         revealed_values' = IF decoded.ok
                            THEN Append(revealed_values, decoded.values)
                            ELSE revealed_values
    /\ ridx' = ridx + 1
    /\ UNCHANGED <<program, reveals, tpc, exit>>
    /\ UNCHANGED exec_vars

\* variant: an empty set of accepted reveals publishes a zero vector
tally_outcome_default(values) ==
    IF values = <<>> THEN ProcessSuccess(abi_encode_int_array(<<0, 0, 0, 0>>))
    ELSE LET final_values == median_each_field(values) IN
         IF final_values.kind = "ok"
         THEN ProcessSuccess(abi_encode_int_array(final_values.medians))
         ELSE Panicked(final_values.msg)

tally_outcome(values) ==
    IF values = <<>> THEN ProcessError(NoConsensus)
    ELSE LET final_values == median_each_field(values) IN
         CASE final_values.kind = "err" ->
                  ProcessError(IF final_values.msg = "No values to aggregate"
                               THEN "Tally error: No values to aggregate"
                               ELSE "Tally error: Mismatched value length in reveals")
           [] final_values.kind = "panic" -> Panicked(final_values.msg)
           [] OTHER -> ProcessSuccess(abi_encode_int_array(final_values.medians))

\* the code after the loop
core_aggregate ==
    /\ program = "core_tally" /\ tpc = "loop" /\ ridx > Len(reveals)
    /\ exit' = tally_outcome(revealed_values)
    /\ tpc' = "done"
    /\ UNCHANGED <<program, reveals, ridx, revealed_values>>
    /\ UNCHANGED exec_vars

(***************************************************************************)
(* caplight-eod-market-price tally_phase                                   *)
(***************************************************************************)
caplight_get_reveals ==
    /\ program = "caplight_tally" /\ tpc = "start"
    /\ \E fetched \in BOOLEAN :
         IF fetched
         THEN tpc' = "loop" /\ exit' = exit
         ELSE tpc' = "done" /\ exit' = ReturnedErr("get_reveals")
    /\ UNCHANGED <<program, reveals, ridx, revealed_values>>
    /\ UNCHANGED exec_vars

caplight_decode_reveal ==
    /\ program = "caplight_tally" /\ tpc = "loop" /\ ridx <= Len(reveals)
    /\ LET parsed == u128_from_le_bytes(reveals[ridx]) IN
         revealed_values' = IF parsed.ok
                            THEN Append(revealed_values, parsed.price)
                            ELSE revealed_values
    /\ ridx' = ridx + 1
    /\ UNCHANGED <<program, reveals, tpc, exit>>
    /\ UNCHANGED exec_vars

caplight_outcome(prices) ==
    IF prices = <<>> THEN ProcessError(NoConsensus)
    ELSE ProcessSuccess(abi_encode_int_array(<<median(prices)>>))

caplight_aggregate ==
    /\ program = "caplight_tally" /\ tpc = "loop" /\ ridx > Len(reveals)
    /\ exit' = caplight_outcome(revealed_values)
    /\ tpc' = "done"
    /\ UNCHANGED <<program, reveals, ridx, revealed_values>>
    /\ UNCHANGED exec_vars

NextTally ==
    \/ core_get_reveals
    \/ core_decode_reveal
    \/ core_aggregate
    \/ caplight_get_reveals
    \/ caplight_decode_reveal
    \/ caplight_aggregate

SpecTally == InitTally /\ [][NextTally]_vars

(***************************************************************************)
(* Inputs and remote responses of the execution phases                     *)
(***************************************************************************)
\* "WCRO-USDC", "VVS-WCRO", "WBTC-WCRO", "WCRO-ETH", "USDT-USDC", "BTC-USD"
TXT_WCRO_USDC == <<87, 67, 82, 79, 45, 85, 83, 68, 67>>
TXT_VVS_WCRO == <<86, 86, 83, 45, 87, 67, 82, 79>>
TXT_WBTC_WCRO == <<87, 66, 84, 67, 45, 87, 67, 82, 79>>
TXT_WCRO_ETH == <<87, 67, 82, 79, 45, 69, 84, 72>>
TXT_USDT_USDC == <<85, 83, 68, 84, 45, 85, 83, 68, 67>>
TXT_BTC_USD == <<66, 84, 67, 45, 85, 83, 68>>
\* "{}": the text of a JSON object without a pair
TXT_EMPTY_OBJECT == <<123, 125>>
TARGET_PAIR == TXT_WCRO_USDC
DEFAULT_PAIR == TXT_WCRO_USDC

PairTexts ==
    {TXT_WCRO_USDC, to_lowercase(TXT_WCRO_USDC), TXT_VVS_WCRO, TXT_WBTC_WCRO,
     TXT_WCRO_ETH, TXT_USDT_USDC, TXT_BTC_USD}

\* The raw input by what the parsers distinguish: bytes that are not UTF-8;
\* blank text; bare text that is not JSON (WCRO-USDC); a JSON string
\* ("WCRO-USDC"); a JSON object, with or without a string field `pair`.
Inputs ==
    { [utf8 |-> FALSE, shape |-> "bare", has_pair |-> FALSE, text |-> <<>>],
      [utf8 |-> TRUE, shape |-> "blank", has_pair |-> FALSE, text |-> <<>>],
      [utf8 |-> TRUE, shape |-> "object", has_pair |-> FALSE, text |-> TXT_EMPTY_OBJECT] }
    \cup { [utf8 |-> TRUE, shape |-> sh, has_pair |-> (sh = "object"), text |-> t] :
             sh \in {"bare", "string", "object"}, t \in PairTexts }

\* The response to one remote call: the HTTP exchange was rejected (a timeout
\* included), the body is not JSON, or it is a JSON object that may carry an
\* `error` member and a string `result` member.
RpcResponse(status, has_error, has_result, result) ==
    [status |-> status, has_error |-> has_error, has_result |-> has_result, result |-> result]

\* what the claims distinguish in a reply: how the exchange ended and which
\* members the JSON object carries
Reply(response) ==
    [status |-> response.status, has_error |-> response.has_error,
     has_result |-> response.has_result]

FailedResponses ==
    { RpcResponse("rejected", FALSE, FALSE, <<>>),
      RpcResponse("invalid_json", FALSE, FALSE, <<>>),
      RpcResponse("json", TRUE, FALSE, <<>>),
      RpcResponse("json", FALSE, FALSE, <<>>) }

\* result words of token0() for a pool: the base address in lower and in
\* upper case, the quote address, another address, and a result that is not
\* one word
Token0Results(config) ==
    { Prefix0x \o <<48, 48>> \o to_lowercase(strip_0x(config.base)),
      Prefix0x \o <<48, 48>> \o to_uppercase(strip_0x(config.base)),
      Prefix0x \o <<48, 48>> \o to_lowercase(strip_0x(config.quote)),
      Prefix0x \o <<48, 48, 98, 101, 101, 102>>,
      Prefix0x \o <<53, 99, 55, 102>> }

Token0Responses(config) ==
    FailedResponses \cup {RpcResponse("json", FALSE, TRUE, r) : r \in Token0Results(config)}

\* eth_blockNumber results: a hexadecimal height, or text that is not one;
\* the last reply carries an `error` member next to its `result`
BlockNumberResponses ==
    FailedResponses
    \cup {RpcResponse("json", FALSE, TRUE, [valid |-> TRUE, number |-> n]) : n \in {1, 5}}
    \cup {RpcResponse("json", FALSE, TRUE, [valid |-> FALSE, number |-> 0])}
    \cup {RpcResponse("json", TRUE, TRUE, [valid |-> TRUE, number |-> 5])}

ReserveValues == {0, 1, 100, 120, 5000, U256_MAX}

\* getReserves() results after hex decoding: the 256-bit words of the result,
\* or text that is not hexadecimal
ReservesResults ==
    { [hex_ok |-> FALSE, words |-> <<>>], [hex_ok |-> TRUE, words |-> <<100, 5000>>] }
    \cup { [hex_ok |-> TRUE, words |-> <<r0, r1, 7>>] : r0, r1 \in ReserveValues }

ReservesResponses ==
    FailedResponses \cup {RpcResponse("json", FALSE, TRUE, r) : r \in ReservesResults}
    \cup {RpcResponse("json", TRUE, TRUE, [hex_ok |-> TRUE, words |-> <<100, 5000, 7>>])}

SELECTOR_GET_RESERVES == "0902f1ac"
SELECTOR_TOKEN0 == "0dfe1681"

EthCall(to, data, block_tag) ==
    [method |-> "eth_call", to |-> to, data |-> data, block |-> block_tag]
EthBlockNumber ==
    [method |-> "eth_blockNumber", to |-> "", data |-> "", block |-> ""]

(***************************************************************************)
(* seda-core execution_phase.rs: input and remote calls                    *)
(***************************************************************************)
core_parse_input_pair(raw) ==
    IF raw.shape = "blank" THEN Err("Missing input: pair required")
    ELSE IF raw.shape # "object" THEN Err("serde_json: input is not an OracleInput")
    ELSE IF ~raw.has_pair THEN Err("Missing pair in input")
    ELSE LET upper == to_uppercase(raw.text) IN
         IF upper # TARGET_PAIR THEN Err("Unsupported pair")
         ELSE [ok |-> TRUE, v |-> upper, err |-> ""]

rpc_request(response) ==
    IF response.status = "rejected" THEN Err("RPC request failed")
    ELSE IF response.status = "invalid_json" THEN Err("serde_json: invalid response")
    ELSE [ok |-> TRUE, v |-> response, err |-> ""]

rpc_call(response) ==
    LET json_value == rpc_request(response) IN
    IF ~json_value.ok THEN json_value
    ELSE IF response.has_error THEN Err("RPC error")
    ELSE IF ~response.has_result THEN Err("RPC response missing result")
    ELSE [ok |-> TRUE, v |-> response.result, err |-> ""]

rpc_get_block_number(response) ==
    LET json_value == rpc_request(response) IN
    IF ~json_value.ok THEN json_value
    ELSE IF ~response.has_result THEN Err("RPC response missing block number")
    ELSE IF ~response.result.valid THEN Err("Invalid block number")
    ELSE Ok(response.result.number)

MIN_RESERVES_WORDS == 3

get_reserves(response) ==
    LET reserves_result == rpc_call(response) IN
    IF ~reserves_result.ok THEN reserves_result
    ELSE IF ~reserves_result.v.hex_ok THEN Err("Failed to parse reserves hex")
    ELSE IF Len(reserves_result.v.words) < MIN_RESERVES_WORDS
    THEN Err("Reserves result too short")
    ELSE [ok |-> TRUE, err |-> "",
          v |-> [reserve0 |-> reserves_result.v.words[1],
                 reserve1 |-> reserves_result.v.words[2]]]

\* Process::error("Execution error: {err}") for an Err (msg holds {err}), a
\* trap for a panic
Failure(result) ==
    IF result.err = "panic" THEN Panicked("panic") ELSE ProcessError(result.err)

\* lines 67-102: everything after the two prices are known; locals holds
\* the values computed before the run ended
signal_locals(t0, reserves, spot, p24, checks) ==
    LET fair_price == fair_price_of(spot, p24, checks)
        quote_side == quote_reserve(reserves, t0, CorePairConfig)
        base_side == base_reserve(reserves, t0, CorePairConfig)
        liquidity == liquidity_score(quote_side.v)
        delta_1e6 == ratio_scaled_u128(abs_diff_u128(spot, p24), spot)
        time_score == temporal_score(delta_1e6.v)
        confidence_score == confidence_of(liquidity.v, time_score)
        size == max_safe_execution_size(quote_side.v, base_side.v, spot)
        flags == build_flags(delta_1e6.v, liquidity.v, confidence_score)
        s1 == [NoSignal EXCEPT !.stage = 1, !.fair_price = fair_price]
        s2 == [s1 EXCEPT !.stage = 2, !.liquidity_score = liquidity.v]
        s3 == [s2 EXCEPT !.stage = 3, !.delta_1e6 = delta_1e6.v]
        s4 == [s3 EXCEPT !.stage = 4, !.time_score = time_score]
        s5 == [s4 EXCEPT !.stage = 5, !.confidence_score = confidence_score]
        s6 == [s5 EXCEPT !.stage = 6, !.max_safe_execution_size = size.v]
        s7 == [s6 EXCEPT !.stage = 7, !.flags = flags]
    IN  IF fair_price = PANIC THEN [locals |-> NoSignal, exit |-> Panicked("panic")]
        ELSE IF ~quote_side.ok THEN [locals |-> s1, exit |-> Failure(quote_side)]
        ELSE IF ~liquidity.ok THEN [locals |-> s1, exit |-> Failure(liquidity)]
        ELSE IF ~delta_1e6.ok THEN [locals |-> s2, exit |-> Failure(delta_1e6)]
        ELSE IF time_score = PANIC THEN [locals |-> s3, exit |-> Panicked("panic")]
        ELSE IF confidence_score = PANIC THEN [locals |-> s4, exit |-> Panicked("panic")]
        ELSE IF ~base_side.ok THEN [locals |-> s5, exit |-> Failure(base_side)]
        ELSE IF ~size.ok THEN [locals |-> s5, exit |-> Failure(size)]
        ELSE [locals |-> s7,
              exit |-> ProcessSuccess(abi_encode_int_array(
                           <<fair_price, confidence_score, size.v, flags>>))]

core_signal(t0, reserves, spot, p24, checks) ==
    signal_locals(t0, reserves, spot, p24, checks).exit

InitCoreExec ==
    /\ program = "core_exec"
    /\ exit = Running
    /\ TallyIdle
    /\ input \in Inputs
    /\ epc = "start"
    /\ rpc_log = <<>>
    /\ rpc_replies = <<>>
    /\ pair = <<>>
    /\ token0 = <<>>
    /\ latest_block = 0
    /\ latest_reserves = NoReserves
    /\ spot_now = 0
    /\ reserves_24h = NoReserves
    /\ price_24h = 0
    /\ overflow_checks \in BOOLEAN
    /\ replication_factor = 1
    /\ signal = NoSignal
    /\ caplight_price = NoPrice

\* lines 43-45
core_parse_input ==
    /\ program = "core_exec" /\ epc = "start"
    /\ LET parsed == IF input.utf8 THEN core_parse_input_pair(input)
                     ELSE Err("invalid utf-8 sequence") IN
         IF parsed.ok
         THEN pair' = parsed.v /\ epc' = "token0" /\ exit' = exit
         ELSE pair' = pair /\ epc' = "done" /\ exit' = Failure(parsed)
    /\ UNCHANGED <<program, input, rpc_log, rpc_replies, token0, latest_block, latest_reserves,
                   spot_now, reserves_24h, price_24h, overflow_checks, replication_factor>>
    /\ UNCHANGED <<signal, caplight_price>>
    /\ UNCHANGED tally_vars

\* lines 55-57
core_fetch_token0 ==
    /\ program = "core_exec" /\ epc = "token0"
    /\ \E response \in Token0Responses(CorePairConfig) :
         LET token0_result == rpc_call(response)
             address == parse_address_from_32byte(token0_result.v)
         IN  /\ rpc_log' = Append(rpc_log, EthCall(CorePairConfig.pair, SELECTOR_TOKEN0, "latest"))
             /\ rpc_replies' = Append(rpc_replies, Reply(response))
             /\ IF ~token0_result.ok
                THEN token0' = token0 /\ epc' = "done" /\ exit' = Failure(token0_result)
                ELSE IF ~address.some
                THEN /\ token0' = token0 /\ epc' = "done"
                     /\ exit' = ProcessError("Failed to parse token0 address")
                ELSE token0' = address.address /\ epc' = "block_number" /\ exit' = exit
    /\ UNCHANGED <<program, input, pair, latest_block, latest_reserves,
                   spot_now, reserves_24h, price_24h, overflow_checks, replication_factor>>
    /\ UNCHANGED <<signal, caplight_price>>
    /\ UNCHANGED tally_vars

\* line 59
core_fetch_block_number ==
    /\ program = "core_exec" /\ epc = "block_number"
    /\ \E response \in BlockNumberResponses :
         LET number == rpc_get_block_number(response) IN
             /\ rpc_log' = Append(rpc_log, EthBlockNumber)
             /\ rpc_replies' = Append(rpc_replies, Reply(response))
             /\ IF number.ok
                THEN latest_block' = number.v /\ epc' = "latest_reserves" /\ exit' = exit
                ELSE latest_block' = latest_block /\ epc' = "done" /\ exit' = Failure(number)
    /\ UNCHANGED <<program, input, pair, token0, latest_reserves,
                   spot_now, reserves_24h, price_24h, overflow_checks, replication_factor>>
    /\ UNCHANGED <<signal, caplight_price>>
    /\ UNCHANGED tally_vars

\* lines 61-62
core_fetch_latest_reserves ==
    /\ program = "core_exec" /\ epc = "latest_reserves"
    /\ \E response \in ReservesResponses :
         LET fetched == get_reserves(response)
             price == price_from_reserves(CorePairConfig, token0, fetched.v)
         IN  /\ rpc_log' = Append(rpc_log,
                    EthCall(CorePairConfig.pair, SELECTOR_GET_RESERVES, latest_block))
             /\ rpc_replies' = Append(rpc_replies, Reply(response))
             /\ IF ~fetched.ok
                THEN /\ UNCHANGED <<latest_reserves, spot_now>>
                     /\ epc' = "done" /\ exit' = Failure(fetched)
                ELSE IF ~price.ok
                THEN /\ latest_reserves' = fetched.v /\ spot_now' = spot_now
                     /\ epc' = "done" /\ exit' = Failure(price)
                ELSE /\ latest_reserves' = fetched.v /\ spot_now' = price.v
                     /\ epc' = "reserves_24h" /\ exit' = exit
    /\ UNCHANGED <<program, input, pair, token0, latest_block,
                   reserves_24h, price_24h, overflow_checks, replication_factor>>
    /\ UNCHANGED <<signal, caplight_price>>
    /\ UNCHANGED tally_vars

\* lines 60, 64-65
core_fetch_reserves_24h ==
    /\ program = "core_exec" /\ epc = "reserves_24h"
    /\ \E response \in ReservesResponses :
         LET block_24h == saturating_sub(latest_block, BLOCKS_24H_ESTIMATE)
             fetched == get_reserves(response)
             price == price_from_reserves(CorePairConfig, token0, fetched.v)
         IN  /\ rpc_log' = Append(rpc_log,
                    EthCall(CorePairConfig.pair, SELECTOR_GET_RESERVES, block_24h))
             /\ rpc_replies' = Append(rpc_replies, Reply(response))
             /\ IF ~fetched.ok
                THEN /\ UNCHANGED <<reserves_24h, price_24h>>
                     /\ epc' = "done" /\ exit' = Failure(fetched)
                ELSE IF ~price.ok
                THEN /\ reserves_24h' = fetched.v /\ price_24h' = price_24h
                     /\ epc' = "done" /\ exit' = Failure(price)
                ELSE /\ reserves_24h' = fetched.v /\ price_24h' = price.v
                     /\ epc' = "signal" /\ exit' = exit
    /\ UNCHANGED <<program, input, pair, token0, latest_block,
                   latest_reserves, spot_now, overflow_checks, replication_factor>>
    /\ UNCHANGED <<signal, caplight_price>>
    /\ UNCHANGED tally_vars

\* lines 67-102
core_emit_signal ==
    /\ program \in {"core_exec", "core_analytics"} /\ epc = "signal"
    /\ LET outcome == signal_locals(token0, latest_reserves, spot_now, price_24h,
                                    overflow_checks) IN
         /\ exit' = outcome.exit
         /\ signal' = outcome.locals
    /\ epc' = "done"
    /\ UNCHANGED <<program, input, rpc_log, rpc_replies, pair, token0, latest_block, latest_reserves,
                   spot_now, reserves_24h, price_24h, overflow_checks, replication_factor, caplight_price>>
    /\ UNCHANGED tally_vars

NextCoreExec ==
    \/ core_parse_input
    \/ core_fetch_token0
    \/ core_fetch_block_number
    \/ core_fetch_latest_reserves
    \/ core_fetch_reserves_24h
    \/ core_emit_signal

(***************************************************************************)
(* Lines 67-102 of execution_phase_inner as a function of its inputs: the   *)
(* two price samples, the latest reserves and the build profile are drawn   *)
(* from sample sets instead of being fetched.                               *)
(***************************************************************************)
\* 128-bit price samples: zero, one, ordinary prices around the divergence
\* threshold, prices above half the range, the maximum
PriceSamples == {0, 1, 40, 95, 100, 105, 200, 505, 526, 1000, 3333, 10000, U128_MAX}

\* quote-side and base-side reserve words
QuoteReserveSamples == {0, 1, 2, 3, 4, 8, 20, 100, 300, 500, 1000, U256_MAX}
BaseReserveSamples == {0, 1, 8, 20, 100, 500, 1000, 20000, U256_MAX}

InitAnalytics ==
    /\ program = "core_analytics"
    /\ exit = Running
    /\ TallyIdle
    /\ input = [utf8 |-> TRUE, shape |-> "object", has_pair |-> TRUE, text |-> TARGET_PAIR]
    /\ epc = "signal"
    /\ rpc_log = <<>>
    /\ rpc_replies = <<>>
    /\ pair = TARGET_PAIR
    /\ token0 = to_lowercase(CorePairConfig.base)
    /\ latest_block = 0
    /\ \E base_side \in BaseReserveSamples, quote_side \in QuoteReserveSamples :
         latest_reserves = [reserve0 |-> base_side, reserve1 |-> quote_side]
    /\ spot_now \in PriceSamples
    /\ reserves_24h = NoReserves
    /\ price_24h \in PriceSamples
    /\ overflow_checks \in BOOLEAN
    /\ replication_factor = 1
    /\ signal = NoSignal
    /\ caplight_price = NoPrice

NextAnalytics == core_emit_signal

SpecAnalytics == InitAnalytics /\ [][NextAnalytics]_vars

\* The sizing statement depends on the reserves and the spot price only: the
\* same runs with the earlier sample equal to the spot price.
InitSizing ==
    /\ InitAnalytics
    /\ price_24h = spot_now
    /\ overflow_checks = FALSE

NextSizing == core_emit_signal

SpecSizing == InitSizing /\ [][NextSizing]_vars

(***************************************************************************)
(* evm-price-feed execution_phase.rs                                       *)
(***************************************************************************)
\* "0x2D03...", "0x062E...", "0xe44F...", "0x66e4..."
VVS_ADDRESS == Prefix0x \o <<50, 68, 48, 51>>
WBTC_ADDRESS == Prefix0x \o <<48, 54, 50, 69>>
WETH_ADDRESS == Prefix0x \o <<101, 52, 52, 70>>
USDT_ADDRESS == Prefix0x \o <<54, 54, 101, 52>>

SELECTOR_SLOT0 == "3850c7bd"

\* 2^96 and 2^192 of the source: the fixed-point base of the square-root
\* price and its square, reduced with the word width so that
\* SCALE * 10^decimals * q192 still fits a word, as it does in the source
Q96 == 64
q192 == Q96 * Q96

\* lines 64-101; decimals 18, 8 and 6 of the source are 2, 1 and 1
FeedConfig(id, kind, pool, base, quote, base_decimals, quote_decimals) ==
    [id |-> id, kind |-> kind, pair |-> pool, base |-> base, quote |-> quote,
     base_decimals |-> base_decimals, quote_decimals |-> quote_decimals]

FeedConfigs ==
    { FeedConfig(TXT_WCRO_USDC, "v2", "WCRO_USDC_PAIR", WCRO_ADDRESS, USDC_ADDRESS, 2, 1),
      FeedConfig(TXT_VVS_WCRO, "v2", "VVS_WCRO_PAIR", VVS_ADDRESS, WCRO_ADDRESS, 2, 2),
      FeedConfig(TXT_WBTC_WCRO, "v2", "WBTC_WCRO_PAIR", WBTC_ADDRESS, WCRO_ADDRESS, 1, 2),
      FeedConfig(TXT_WCRO_ETH, "v2", "WCRO_ETH_PAIR", WCRO_ADDRESS, WETH_ADDRESS, 2, 2),
      FeedConfig(TXT_USDT_USDC, "v3", "USDT_USDC_V3_POOL", USDT_ADDRESS, USDC_ADDRESS, 1, 1) }

feed_parse_input_pair(raw) ==
    IF raw.shape = "blank" THEN DEFAULT_PAIR
    ELSE IF raw.shape = "object" /\ raw.has_pair THEN raw.text
    ELSE IF raw.shape = "string" THEN raw.text
    ELSE raw.text

validate_pair(text) ==
    LET upper == to_uppercase(text) IN
    IF \E config \in FeedConfigs : config.id = upper
    THEN [ok |-> TRUE, v |-> upper, err |-> ""]
    ELSE Err("Unsupported pair")

feed_rpc_call(response) ==
    IF response.status = "rejected" THEN Err("RPC call failed")
    ELSE IF response.status = "invalid_json" THEN Err("serde_json: invalid response")
    ELSE IF ~response.has_result THEN Err("RPC response missing result")
    ELSE [ok |-> TRUE, v |-> response.result, err |-> ""]

\* lines 196-207
v2_price_of_sides(config, base_side, quote_side) ==
    IF base_side = 0 THEN Err("Base reserve is zero")
    ELSE u256_to_u128(U256_div(saturating_mul(quote_side, pow10_u256(config.base_decimals + SCALE_DIGITS)),
                               saturating_mul(base_side, pow10_u256(config.quote_decimals))))

\* lines 185-207: the part of price_from_v2 after its two remote calls
price_from_v2(config, t0, reserves) ==
    LET base == to_lowercase(config.base)
        quote == to_lowercase(config.quote)
    IN  IF eq_ignore_ascii_case(t0, base)
        THEN v2_price_of_sides(config, reserves.reserve0, reserves.reserve1)
        ELSE IF eq_ignore_ascii_case(t0, quote)
        THEN v2_price_of_sides(config, reserves.reserve1, reserves.reserve0)
        ELSE Err("token0 mismatch for pair")

\* lines 219, 225-254: the part of price_from_v3 after its two remote calls
price_from_v3(config, t0, sqrt_price_x96) ==
    LET price_x192 == saturating_mul(sqrt_price_x96, sqrt_price_x96)
        base == to_lowercase(config.base)
        quote == to_lowercase(config.quote)
    IN  IF eq_ignore_ascii_case(t0, base)
        THEN LET numerator == saturating_mul(saturating_mul(price_x192, pow10_u256(SCALE_DIGITS)),
                                             pow10_u256(config.base_decimals))
                 denominator == saturating_mul(q192, pow10_u256(config.quote_decimals))
             IN  u256_to_u128(U256_div(numerator, denominator))
        ELSE IF eq_ignore_ascii_case(t0, quote)
        THEN IF price_x192 = 0 THEN Err("Price is zero")
             ELSE LET numerator == saturating_mul(
                          saturating_mul(pow10_u256(SCALE_DIGITS), pow10_u256(config.quote_decimals)),
                          q192)
                      denominator == saturating_mul(pow10_u256(config.base_decimals), price_x192)
                  IN  u256_to_u128(U256_div(numerator, denominator))
        ELSE Err("token0 mismatch for pool")

\* u128::to_le_bytes
to_le_bytes(value) == <<value % ByteBase, value \div ByteBase>>

MIN_V2_WORDS == 2
MIN_SLOT0_WORDS == 1

\* square-root prices returned by slot0(): zero, below, at and above the
\* fixed-point base, a value whose scaled square exceeds 256 bits while the
\* price fits 128 bits, and values whose square exceeds 256 bits
SqrtPriceValues ==
    {0, 1, Q96 \div 2, Q96, 2 * Q96, 3 * Q96 + 8, U128_MAX + 1, 8 * (U128_MAX + 1)}

Slot0Results ==
    { [hex_ok |-> FALSE, words |-> <<>>], [hex_ok |-> TRUE, words |-> <<>>] }
    \cup { [hex_ok |-> TRUE, words |-> <<sp, 3, 0>>] : sp \in SqrtPriceValues }

Slot0Responses ==
    FailedResponses \cup {RpcResponse("json", FALSE, TRUE, r) : r \in Slot0Results}

FeedReservesResults ==
    { [hex_ok |-> FALSE, words |-> <<>>], [hex_ok |-> TRUE, words |-> <<100>>] }
    \cup { [hex_ok |-> TRUE, words |-> <<r0, r1, 7>>] : r0, r1 \in ReserveValues }

FeedReservesResponses ==
    FailedResponses \cup {RpcResponse("json", FALSE, TRUE, r) : r \in FeedReservesResults}

\* the configuration selected for the validated pair
feed_config == CHOOSE config \in FeedConfigs : config.id = pair

InitFeed ==
    /\ program = "evm_feed"
    /\ exit = Running
    /\ TallyIdle
    /\ input \in Inputs
    /\ epc = "start"
    /\ rpc_log = <<>>
    /\ rpc_replies = <<>>
    /\ pair = <<>>
    /\ token0 = <<>>
    /\ latest_block = 0
    /\ latest_reserves = NoReserves
    /\ spot_now = 0
    /\ reserves_24h = NoReserves
    /\ price_24h = 0
    /\ overflow_checks = FALSE
    /\ replication_factor = 1
    /\ signal = NoSignal
    /\ caplight_price = NoPrice

\* lines 61-62 and the dispatch of lines 64-106
feed_parse_input ==
    /\ program = "evm_feed" /\ epc = "start"
    /\ LET validated == IF input.utf8 THEN validate_pair(feed_parse_input_pair(input))
                        ELSE Err("invalid utf-8 sequence") IN
         IF validated.ok
         THEN /\ pair' = validated.v /\ exit' = exit
              /\ epc' = IF \E config \in FeedConfigs : config.id = validated.v /\ config.kind = "v3"
                        THEN "v3_slot0" ELSE "v2_reserves"
         ELSE pair' = pair /\ epc' = "done" /\ exit' = ReturnedErr(validated.err)
    /\ UNCHANGED <<program, input, rpc_log, rpc_replies, token0, latest_block, latest_reserves,
                   spot_now, reserves_24h, price_24h, overflow_checks, replication_factor>>
    /\ UNCHANGED <<signal, caplight_price>>
    /\ UNCHANGED tally_vars

\* price_from_v2, lines 171-179
feed_v2_fetch_reserves ==
    /\ program = "evm_feed" /\ epc = "v2_reserves"
    /\ \E response \in FeedReservesResponses :
         LET reserves_result == feed_rpc_call(response) IN
             /\ rpc_log' = Append(rpc_log, EthCall(feed_config.pair, SELECTOR_GET_RESERVES, "latest"))
             /\ rpc_replies' = Append(rpc_replies, Reply(response))
             /\ IF ~reserves_result.ok
                THEN /\ UNCHANGED latest_reserves
                     /\ epc' = "done" /\ exit' = ReturnedErr(reserves_result.err)
                ELSE IF ~reserves_result.v.hex_ok
                THEN /\ UNCHANGED latest_reserves
                     /\ epc' = "done" /\ exit' = ReturnedErr("Failed to parse reserves hex")
                ELSE IF Len(reserves_result.v.words) < MIN_V2_WORDS
                THEN /\ UNCHANGED latest_reserves
                     /\ epc' = "done" /\ exit' = ReturnedErr("Reserves result too short")
                ELSE /\ latest_reserves' = [reserve0 |-> reserves_result.v.words[1],
                                            reserve1 |-> reserves_result.v.words[2]]
                     /\ epc' = "v2_token0" /\ exit' = exit
    /\ UNCHANGED <<program, input, pair, token0, latest_block,
                   spot_now, reserves_24h, price_24h, overflow_checks, replication_factor>>
    /\ UNCHANGED <<signal, caplight_price>>
    /\ UNCHANGED tally_vars

\* price_from_v2, lines 181-207, and lines 108-110 of execution_phase
feed_v2_price ==
    /\ program = "evm_feed" /\ epc = "v2_token0"
    /\ \E response \in Token0Responses(feed_config) :
         LET token0_result == feed_rpc_call(response)
             address == parse_address_from_32byte(token0_result.v)
             price_scaled == price_from_v2(feed_config, address.address, latest_reserves)
         IN  /\ rpc_log' = Append(rpc_log, EthCall(feed_config.pair, SELECTOR_TOKEN0, "latest"))
             /\ rpc_replies' = Append(rpc_replies, Reply(response))
             /\ epc' = "done"
             /\ IF ~token0_result.ok
                THEN /\ UNCHANGED <<token0, spot_now>>
                     /\ exit' = ReturnedErr(token0_result.err)
                ELSE IF ~address.some
                THEN /\ UNCHANGED <<token0, spot_now>>
                     /\ exit' = ReturnedErr("Failed to parse token0 address")
                ELSE IF ~price_scaled.ok
                THEN /\ token0' = address.address /\ spot_now' = spot_now
                     /\ exit' = IF price_scaled.err = "panic" THEN Panicked("panic")
                                ELSE ReturnedErr(price_scaled.err)
                ELSE /\ token0' = address.address /\ spot_now' = price_scaled.v
                     /\ exit' = ProcessSuccess(to_le_bytes(price_scaled.v))
    /\ UNCHANGED <<program, input, pair, latest_block, latest_reserves,
                   reserves_24h, price_24h, overflow_checks, replication_factor>>
    /\ UNCHANGED <<signal, caplight_price>>
    /\ UNCHANGED tally_vars

\* price_from_v3, lines 211-219
feed_v3_fetch_slot0 ==
    /\ program = "evm_feed" /\ epc = "v3_slot0"
    /\ \E response \in Slot0Responses :
         LET slot0_result == feed_rpc_call(response) IN
             /\ rpc_log' = Append(rpc_log, EthCall(feed_config.pair, SELECTOR_SLOT0, "latest"))
             /\ rpc_replies' = Append(rpc_replies, Reply(response))
             /\ IF ~slot0_result.ok
                THEN /\ UNCHANGED latest_reserves
                     /\ epc' = "done" /\ exit' = ReturnedErr(slot0_result.err)
                ELSE IF ~slot0_result.v.hex_ok
                THEN /\ UNCHANGED latest_reserves
                     /\ epc' = "done" /\ exit' = ReturnedErr("Failed to parse slot0 hex")
                ELSE IF Len(slot0_result.v.words) < MIN_SLOT0_WORDS
                THEN /\ UNCHANGED latest_reserves
                     /\ epc' = "done" /\ exit' = ReturnedErr("slot0 result too short")
                ELSE /\ latest_reserves' = [sqrt_price_x96 |-> slot0_result.v.words[1]]
                     /\ epc' = "v3_token0" /\ exit' = exit
    /\ UNCHANGED <<program, input, pair, token0, latest_block,
                   spot_now, reserves_24h, price_24h, overflow_checks, replication_factor>>
    /\ UNCHANGED <<signal, caplight_price>>
    /\ UNCHANGED tally_vars

\* price_from_v3, lines 221-254, and lines 108-110 of execution_phase
feed_v3_price ==
    /\ program = "evm_feed" /\ epc = "v3_token0"
    /\ \E response \in Token0Responses(feed_config) :
         LET token0_result == feed_rpc_call(response)
             address == parse_address_from_32byte(token0_result.v)
             price_scaled == price_from_v3(feed_config, address.address,
                                           latest_reserves.sqrt_price_x96)
         IN  /\ rpc_log' = Append(rpc_log, EthCall(feed_config.pair, SELECTOR_TOKEN0, "latest"))
             /\ rpc_replies' = Append(rpc_replies, Reply(response))
             /\ epc' = "done"
             /\ IF ~token0_result.ok
                THEN /\ UNCHANGED <<token0, spot_now>>
                     /\ exit' = ReturnedErr(token0_result.err)
                ELSE IF ~address.some
                THEN /\ UNCHANGED <<token0, spot_now>>
                     /\ exit' = ReturnedErr("Failed to parse token0 address")
                ELSE IF ~price_scaled.ok
                THEN /\ token0' = address.address /\ spot_now' = spot_now
                     /\ exit' = IF price_scaled.err = "panic" THEN Panicked("panic")
                                ELSE ReturnedErr(price_scaled.err)
                ELSE /\ token0' = address.address /\ spot_now' = price_scaled.v
                     /\ exit' = ProcessSuccess(to_le_bytes(price_scaled.v))
    /\ UNCHANGED <<program, input, pair, latest_block, latest_reserves,
                   reserves_24h, price_24h, overflow_checks, replication_factor>>
    /\ UNCHANGED <<signal, caplight_price>>
    /\ UNCHANGED tally_vars

NextFeed ==
    \/ feed_parse_input
    \/ feed_v2_fetch_reserves
    \/ feed_v2_price
    \/ feed_v3_fetch_slot0
    \/ feed_v3_price

(***************************************************************************)
(* caplight-eod-market-price execution_phase.rs                            *)
(***************************************************************************)
\* "54782-29"
TXT_PITCHBOOK_ID == <<53, 52, 55, 56, 50, 45, 50, 57>>
ALLOWED_PITCHBOOK_IDS == {TXT_PITCHBOOK_ID}

CaplightInputs ==
    { [utf8 |-> FALSE, shape |-> "bare", has_pair |-> FALSE, text |-> <<>>],
      [utf8 |-> TRUE, shape |-> "blank", has_pair |-> FALSE, text |-> <<>>],
      [utf8 |-> TRUE, shape |-> "object", has_pair |-> FALSE, text |-> TXT_EMPTY_OBJECT] }
    \cup { [utf8 |-> TRUE, shape |-> sh, has_pair |-> (sh = "object"), text |-> t] :
             sh \in {"bare", "string", "object"}, t \in {TXT_PITCHBOOK_ID, TXT_WCRO_USDC} }

\* lines 17-33
caplight_parse_input_pair(raw) ==
    IF raw.shape = "blank" THEN Err("No input provided")
    ELSE IF raw.shape = "object" /\ raw.has_pair THEN Ok(raw.text)
    ELSE IF raw.shape = "string" THEN Ok(raw.text)
    ELSE Ok(raw.text)

\* f64 of the source with a MANTISSA_BITS-bit significand (53 in the source,
\* reduced with SCALE): a value is m * 2^e
MANTISSA_BITS == 20

RECURSIVE Pow2(_)
Pow2(n) == IF n = 0 THEN 1 ELSE 2 * Pow2(n - 1)

\* n / d brought into [2^(MANTISSA_BITS-1), 2^MANTISSA_BITS) by powers of two
RECURSIVE f64_normalise(_, _, _)
f64_normalise(n, d, e) ==
    IF n >= Pow2(MANTISSA_BITS) * d THEN f64_normalise(n, 2 * d, e + 1)
    ELSE IF n < Pow2(MANTISSA_BITS - 1) * d THEN f64_normalise(2 * n, d, e - 1)
    ELSE [n |-> n, d |-> d, e |-> e]

\* round to nearest, ties to even
round_ties_even(n, d) ==
    LET q == n \div d
        r == n % d
    IN  IF 2 * r > d \/ (2 * r = d /\ q % 2 = 1) THEN q + 1 ELSE q

\* the f64 nearest to the rational n / d
f64_nearest(n, d) ==
    IF n = 0 THEN [m |-> 0, e |-> 0]
    ELSE LET scaled == f64_normalise(n, d, 0) IN
         [m |-> round_ties_even(scaled.n, scaled.d), e |-> scaled.e]

\* serde_json's as_f64 of the decimal literal digits / 10^frac
as_f64(price) == f64_nearest(price.digits, Pow10(price.frac))

\* price * 1_000_000.0: the exact product rounded to a f64; the literal is
\* exact
f64_mul_scale(a) ==
    LET product == f64_nearest(a.m * SCALE, 1) IN
    [m |-> product.m, e |-> product.e + a.e]

\* `as u128` of a non-negative f64: truncation, saturating at u128::MAX
f64_as_u128(a) ==
    LET truncated == IF a.e >= 0 THEN a.m * Pow2(a.e) ELSE a.m \div Pow2(0 - a.e) IN
    Min(truncated, U128_MAX)

\* line 102
price_lossless(price) == f64_as_u128(f64_mul_scale(as_f64(price)))

\* the price member of the response: a decimal literal digits / 10^frac
PriceDigits == {0, 1, 57, 159, 201, 203, 1005, 1602, 9999}
PriceFracs == {0, 1, 2}

\* The response of the data proxy: rejected (with a body that is or is not
\* UTF-8), a body that is not JSON, or a JSON value with or without a numeric
\* `price` member.
CaplightResponses ==
    { [status |-> st, body_utf8 |-> u, price |-> NoPrice] :
        st \in {"rejected", "invalid_json", "json"}, u \in BOOLEAN }
    \cup { [status |-> "json", body_utf8 |-> TRUE,
            price |-> [present |-> TRUE, digits |-> d, frac |-> f]] :
             d \in PriceDigits, f \in PriceFracs }

ProxyFetch == [method |-> "GET", to |-> "API_URL", data |-> "pitchbookId", block |-> ""]

InitCaplight ==
    /\ program = "caplight_exec"
    /\ exit = Running
    /\ TallyIdle
    /\ input \in CaplightInputs
    /\ epc = "start"
    /\ rpc_log = <<>>
    /\ rpc_replies = <<>>
    /\ pair = <<>>
    /\ token0 = <<>>
    /\ latest_block = 0
    /\ latest_reserves = NoReserves
    /\ spot_now = 0
    /\ reserves_24h = NoReserves
    /\ price_24h = 0
    /\ overflow_checks = FALSE
    /\ replication_factor = 1
    /\ signal = NoSignal
    /\ caplight_price = NoPrice

\* lines 60-66
caplight_parse_input ==
    /\ program = "caplight_exec" /\ epc = "start"
    /\ LET pitchbook_id == IF input.utf8 THEN caplight_parse_input_pair(input)
                           ELSE Err("invalid utf-8 sequence") IN
         IF ~pitchbook_id.ok
         THEN pair' = pair /\ epc' = "done" /\ exit' = ReturnedErr(pitchbook_id.err)
         ELSE IF pitchbook_id.v \notin ALLOWED_PITCHBOOK_IDS
         THEN pair' = pair /\ epc' = "done" /\ exit' = ProcessError("Unsupported pitchbook id")
         ELSE pair' = pitchbook_id.v /\ epc' = "fetch" /\ exit' = exit
    /\ UNCHANGED <<program, input, rpc_log, rpc_replies, token0, latest_block, latest_reserves,
                   spot_now, reserves_24h, price_24h, overflow_checks, replication_factor>>
    /\ UNCHANGED <<signal, caplight_price>>
    /\ UNCHANGED tally_vars

\* lines 71-108
caplight_fetch_price ==
    /\ program = "caplight_exec" /\ epc = "fetch"
    /\ \E response \in CaplightResponses :
         /\ rpc_log' = Append(rpc_log, ProxyFetch)
         /\ rpc_replies' = Append(rpc_replies,
                [status |-> response.status, has_error |-> FALSE,
                 has_result |-> response.price.present])
         /\ epc' = "done"
         /\ IF response.status = "rejected"
            THEN /\ UNCHANGED <<caplight_price, spot_now>>
                 /\ exit' = IF response.body_utf8
                            THEN ProcessError("Error while fetching equity price")
                            ELSE ReturnedErr("invalid utf-8 sequence")
            ELSE IF response.status = "invalid_json"
            THEN /\ UNCHANGED <<caplight_price, spot_now>>
                 /\ exit' = ReturnedErr("serde_json: invalid response")
            ELSE IF ~response.price.present
            THEN /\ UNCHANGED <<caplight_price, spot_now>>
                 /\ exit' = ReturnedErr("Price not found in response")
            ELSE /\ caplight_price' = response.price
                 /\ spot_now' = price_lossless(response.price)
                 /\ exit' = ProcessSuccess(to_le_bytes(price_lossless(response.price)))
    /\ UNCHANGED <<program, input, pair, token0, latest_block, latest_reserves,
                   reserves_24h, price_24h, overflow_checks, replication_factor, signal>>
    /\ UNCHANGED tally_vars

NextCaplight ==
    \/ caplight_parse_input
    \/ caplight_fetch_price

(***************************************************************************)
(* seda-starter-kit execution_phase.rs: three eth_call requests whose      *)
(* results are passed on as one JSON record                                *)
(***************************************************************************)
SELECTOR_GET_PAIR == "e6a43905"

\* the inputs: blank, a URL, bytes that are not UTF-8
StarterInputs ==
    { [utf8 |-> TRUE, shape |-> "blank", has_pair |-> FALSE, text |-> <<>>],
      [utf8 |-> TRUE, shape |-> "url", has_pair |-> FALSE, text |-> <<117>>],
      [utf8 |-> FALSE, shape |-> "bytes", has_pair |-> FALSE, text |-> <<>>] }

ReplicationFactors == {1, 2}

\* result strings of getPair(): a pool address, the zero address, a result
\* that is not one word
PairResults ==
    { Prefix0x \o <<48, 48, 97, 49, 98, 50>>,
      Prefix0x \o <<48, 48, 48, 48, 48, 48>>,
      Prefix0x \o <<97, 49>> }

StarterPairResponses ==
    FailedResponses \cup {RpcResponse("json", FALSE, TRUE, r) : r \in PairResults}

StarterToken0Responses ==
    FailedResponses
    \cup {RpcResponse("json", FALSE, TRUE, r) :
            r \in {Prefix0x \o <<48, 48>> \o strip_0x(USDC_ADDRESS), Prefix0x \o <<53, 99>>}}

\* result strings of getReserves(): passed on as they are
StarterReservesResponses ==
    FailedResponses
    \cup {RpcResponse("json", FALSE, TRUE, r) : r \in {Prefix0x, Prefix0x \o <<48, 49, 48, 50>>}}

is_zero_address(address) ==
    \A i \in 1..Len(strip_0x(address)) : strip_0x(address)[i] = 48

\* lines 80-122: the `result` member as a string, whatever else the reply holds
starter_rpc_call(response) ==
    IF response.status = "rejected" THEN Err("RPC call failed")
    ELSE IF response.status = "invalid_json" THEN Err("serde_json: invalid response")
    ELSE IF ~response.has_result THEN Err("RPC response missing result")
    ELSE [ok |-> TRUE, v |-> response.result, err |-> ""]

\* serde_json::to_vec of the RpcPayload struct: a JSON object with the three
\* members of the struct.  A byte string is modelled by whether it is a JSON
\* object and by the members of that object.
RpcPayload_to_vec(pair_address, token0_address, reserves_result) ==
    [json |-> TRUE,
     object |-> [pair_address |-> pair_address, token0 |-> token0_address,
                 reserves_result |-> reserves_result]]

InitStarterExec ==
    /\ program = "starter_exec"
    /\ exit = Running
    /\ TallyIdle
    /\ input \in StarterInputs
    /\ epc = "start"
    /\ rpc_log = <<>>
    /\ rpc_replies = <<>>
    /\ pair = <<>>
    /\ token0 = <<>>
    /\ latest_block = 0
    /\ latest_reserves = NoReserves
    /\ spot_now = 0
    /\ reserves_24h = NoReserves
    /\ price_24h = 0
    /\ overflow_checks = FALSE
    /\ replication_factor \in ReplicationFactors
    /\ signal = NoSignal
    /\ caplight_price = NoPrice

\* lines 31-43
starter_check_replication ==
    /\ program = "starter_exec" /\ epc = "start"
    /\ IF replication_factor # 1
       THEN epc' = "done" /\ exit' = ProcessError("Invalid replication factor")
       ELSE IF ~input.utf8
       THEN epc' = "done" /\ exit' = ReturnedErr("invalid utf-8 sequence")
       ELSE epc' = "get_pair" /\ exit' = exit
    /\ UNCHANGED <<program, input, rpc_log, rpc_replies, pair, token0, latest_block,
                   latest_reserves, spot_now, reserves_24h, price_24h, overflow_checks,
                   replication_factor, signal, caplight_price>>
    /\ UNCHANGED tally_vars

\* lines 47-60
starter_get_pair ==
    /\ program = "starter_exec" /\ epc = "get_pair"
    /\ \E response \in StarterPairResponses :
         /\ rpc_log' = Append(rpc_log, EthCall("FACTORY_ADDRESS", SELECTOR_GET_PAIR, "latest"))
         /\ rpc_replies' = Append(rpc_replies, Reply(response))
         /\ LET pair_result == starter_rpc_call(response)
                pair_address == parse_address_from_32byte(pair_result.v) IN
              IF ~pair_result.ok
              THEN pair' = pair /\ epc' = "done" /\ exit' = ReturnedErr(pair_result.err)
              ELSE IF ~pair_address.some
              THEN /\ pair' = pair /\ epc' = "done"
                   /\ exit' = ReturnedErr("Failed to parse pair address")
              ELSE IF is_zero_address(pair_address.address)
              THEN /\ pair' = pair /\ epc' = "done"
                   /\ exit' = ProcessError("WCRO/USDC pool not found")
              ELSE pair' = pair_address.address /\ epc' = "token0" /\ exit' = exit
    /\ UNCHANGED <<program, input, token0, latest_block, latest_reserves, spot_now,
                   reserves_24h, price_24h, overflow_checks, replication_factor, signal,
                   caplight_price>>
    /\ UNCHANGED tally_vars

\* lines 62-64
starter_get_token0 ==
    /\ program = "starter_exec" /\ epc = "token0"
    /\ \E response \in StarterToken0Responses :
         /\ rpc_log' = Append(rpc_log, EthCall(pair, SELECTOR_TOKEN0, "latest"))
         /\ rpc_replies' = Append(rpc_replies, Reply(response))
         /\ LET token0_result == starter_rpc_call(response)
                token0_address == parse_address_from_32byte(token0_result.v) IN
              IF ~token0_result.ok
              THEN token0' = token0 /\ epc' = "done" /\ exit' = ReturnedErr(token0_result.err)
              ELSE IF ~token0_address.some
              THEN /\ token0' = token0 /\ epc' = "done"
                   /\ exit' = ReturnedErr("Failed to parse token0 address")
              ELSE token0' = token0_address.address /\ epc' = "reserves" /\ exit' = exit
    /\ UNCHANGED <<program, input, pair, latest_block, latest_reserves, spot_now,
                   reserves_24h, price_24h, overflow_checks, replication_factor, signal,
                   caplight_price>>
    /\ UNCHANGED tally_vars

\* lines 66-77
starter_get_reserves ==
    /\ program = "starter_exec" /\ epc = "reserves"
    /\ \E response \in StarterReservesResponses :
         /\ rpc_log' = Append(rpc_log, EthCall(pair, SELECTOR_GET_RESERVES, "latest"))
         /\ rpc_replies' = Append(rpc_replies, Reply(response))
         /\ epc' = "done"
         /\ LET reserves_result == starter_rpc_call(response) IN
              IF ~reserves_result.ok
              THEN exit' = ReturnedErr(reserves_result.err)
              ELSE exit' = ProcessSuccess(RpcPayload_to_vec(pair, token0, reserves_result.v))
    /\ UNCHANGED <<program, input, pair, token0, latest_block, latest_reserves, spot_now,
                   reserves_24h, price_24h, overflow_checks, replication_factor, signal,
                   caplight_price>>
    /\ UNCHANGED tally_vars

NextStarterExec ==
    \/ starter_check_replication
    \/ starter_get_pair
    \/ starter_get_token0
    \/ starter_get_reserves

(***************************************************************************)
(* seda-starter-kit tally_phase.rs: the single reveal is read as an HTTP   *)
(* response whose body lists pools; the WCRO/USDC pool of greatest         *)
(* liquidity gives the price                                               *)
(***************************************************************************)
TARGET_BASE_SYMBOL == "WCRO"
TARGET_QUOTE_SYMBOL == "USDC"
\* 8 and 18 in the source
PRICE_DECIMALS == 1
LIQUIDITY_DECIMALS == 2

NoneU128 == [some |-> FALSE, v |-> 0]
SomeU128(value) == [some |-> TRUE, v |-> value]

RECURSIVE trim_start(_)
trim_start(str) ==
    IF str # <<>> /\ str[1] = 32 THEN trim_start(Tail(str)) ELSE str

RECURSIVE trim_end(_)
trim_end(str) ==
    IF str # <<>> /\ str[Len(str)] = 32 THEN trim_end(SubSeq(str, 1, Len(str) - 1)) ELSE str

trim(str) == trim_end(trim_start(str))

is_ascii_digit(c) == c \in 48..57

RECURSIVE trim_start_matches_zero(_)
trim_start_matches_zero(str) ==
    IF str # <<>> /\ str[1] = 48 THEN trim_start_matches_zero(Tail(str)) ELSE str

\* str::parse::<u128> of a string of digits: None when the value exceeds
\* 128 bits
RECURSIVE parse_u128(_, _)
parse_u128(digits, acc) ==
    IF acc > U128_MAX THEN NoneU128
    ELSE IF digits = <<>> THEN SomeU128(acc)
    ELSE parse_u128(Tail(digits), 10 * acc + (Head(digits) - 48))

\* lines 88-126
parse_decimal_to_u128(value, scale) ==
    LET trimmed == trim(value)
        dots == {i \in 1..Len(trimmed) : trimmed[i] = 46}
        first == IF dots = {} THEN Len(trimmed) + 1
                 ELSE CHOOSE i \in dots : \A j \in dots : i <= j
        whole == SubSeq(trimmed, 1, first - 1)
        fraction == SubSeq(trimmed, first + 1, Len(trimmed))
        frac == IF Len(fraction) < scale
                THEN fraction \o [i \in 1..(scale - Len(fraction)) |-> 48]
                ELSE SubSeq(fraction, 1, scale)
        combined == whole \o frac
        trimmed_combined == trim_start_matches_zero(combined)
    IN  IF trimmed = <<>> THEN NoneU128
        ELSE IF Cardinality(dots) > 1 THEN NoneU128
        ELSE IF \E i \in 1..Len(whole) : ~is_ascii_digit(whole[i]) THEN NoneU128
        ELSE IF \E i \in 1..Len(fraction) : ~is_ascii_digit(fraction[i]) THEN NoneU128
        ELSE IF trimmed_combined = <<>> THEN SomeU128(0)
        ELSE parse_u128(trimmed_combined, 0)

VvsPair(base_symbol, quote_symbol, price, liquidity) ==
    [base_symbol |-> base_symbol, quote_symbol |-> quote_symbol,
     price |-> price, liquidity |-> liquidity]

\* pools: "0.1" at liquidity "5", "0.2" at "5.0", "0.10" at "5.001", "0.3" at
\* "7", "0.4" at liquidity "x", "a" at liquidity "8", "0.5" at a liquidity
\* beyond 128 bits, and a pool of another pair
VvsPairSamples ==
    { VvsPair("WCRO", "USDC", <<48, 46, 49>>, <<53>>),
      VvsPair("WCRO", "USDC", <<48, 46, 50>>, <<53, 46, 48>>),
      VvsPair("WCRO", "USDC", <<48, 46, 49, 48>>, <<53, 46, 48, 48, 49>>),
      VvsPair("WCRO", "USDC", <<48, 46, 51>>, <<55>>),
      VvsPair("WCRO", "USDC", <<48, 46, 52>>, <<120>>),
      VvsPair("WCRO", "USDC", <<97>>, <<56>>),
      VvsPair("WCRO", "USDC", <<48, 46, 53>>, <<57, 57, 57>>),
      VvsPair("CRO", "USDT", <<57>>, <<57>>) }

PoolKeys == {"pool_a", "pool_b", "pool_c"}

\* the `data` maps of a response: up to three pools
VvsData == UNION { [keys -> VvsPairSamples] : keys \in SUBSET PoolKeys }

NotJson == [json |-> FALSE, object |-> [raw |-> 0]]

\* serde_json of an HttpFetchResponse whose body is `bytes`
HttpFetchResponseJson(status, bytes) ==
    [json |-> TRUE,
     object |-> [status |-> status, headers |-> <<>>, bytes |-> bytes, url |-> "url",
                 content_length |-> 0]]

VvsPairsResponseJson(data) == [json |-> TRUE, object |-> [data |-> data]]

\* reveals that carry a list of pools
PoolReveals == { HttpFetchResponseJson(200, VvsPairsResponseJson(data)) : data \in VvsData }

\* reveals of other shapes: not JSON, a record of another struct, a rejected
\* response, a body that is not JSON, a body without `data`
OtherReveals ==
    { NotJson,
      RpcPayload_to_vec(Prefix0x, Prefix0x, Prefix0x),
      HttpFetchResponseJson(500, VvsPairsResponseJson(<<>>)),
      HttpFetchResponseJson(200, NotJson),
      HttpFetchResponseJson(200, [json |-> TRUE, object |-> [message |-> "none"]]) }

\* serde_json::from_slice::<HttpFetchResponse>: every member of the struct
\* must be present
HttpFetchResponse_from_slice(bytes) ==
    IF bytes.json
       /\ {"status", "headers", "bytes", "url", "content_length"} \subseteq DOMAIN bytes.object
    THEN [ok |-> TRUE, v |-> bytes.object, err |-> ""]
    ELSE Err("serde_json: not an HttpFetchResponse")

is_ok(http_response) == http_response.status \in 200..299

\* serde_json::from_slice::<VvsPairsResponse>
VvsPairsResponse_from_slice(bytes) ==
    IF bytes.json /\ "data" \in DOMAIN bytes.object
    THEN [ok |-> TRUE, v |-> bytes.object, err |-> ""]
    ELSE Err("serde_json: not a VvsPairsResponse")

NotSelected == [some |-> FALSE, price |-> <<>>, liquidity |-> 0]

\* lines 52-71, the pools visited in the order `order`
RECURSIVE select_pool(_, _, _)
select_pool(data, order, selected) ==
    IF order = <<>> THEN selected
    ELSE LET vvs_pair == data[Head(order)]
             liquidity == parse_decimal_to_u128(vvs_pair.liquidity, LIQUIDITY_DECIMALS)
             should_select == IF selected.some THEN liquidity.v > selected.liquidity
                              ELSE TRUE
         IN  IF vvs_pair.base_symbol # TARGET_BASE_SYMBOL
                \/ vvs_pair.quote_symbol # TARGET_QUOTE_SYMBOL
             THEN select_pool(data, Tail(order), selected)
             ELSE IF ~liquidity.some
             THEN select_pool(data, Tail(order), selected)
             ELSE IF should_select
             THEN select_pool(data, Tail(order),
                              [some |-> TRUE, price |-> vvs_pair.price,
                               liquidity |-> liquidity.v])
             ELSE select_pool(data, Tail(order), selected)

\* lines 49-85
tally_selected(data, order) ==
    LET selected == select_pool(data, order, NotSelected)
        price_scaled == parse_decimal_to_u128(selected.price, PRICE_DECIMALS)
    IN  IF ~selected.some THEN ReturnedErr("No WCRO/USDC pool found in VVS response")
        ELSE IF ~price_scaled.some THEN ReturnedErr("Failed to parse WCRO/USD price")
        ELSE ProcessSuccess(<<price_scaled.v>>)

\* the orders in which HashMap::values() can visit the pools
IterationOrders(data) ==
    { order \in [1..Cardinality(DOMAIN data) -> DOMAIN data] :
        \A i, j \in DOMAIN order : order[i] = order[j] => i = j }

InitStarterTally ==
    /\ program = "starter_tally"
    /\ reveals \in {<<>>} \cup {<<r>> : r \in PoolReveals \cup OtherReveals}
                  \cup {<<r, r>> : r \in OtherReveals}
    /\ tpc = "start"
    /\ ridx = 1
    /\ revealed_values = <<>>
    /\ exit = Running
    /\ ExecIdle

\* the data request has replication factor 1: the payload the execution phase
\* ended with is the one reveal the tally phase receives
starter_commit_reveal ==
    /\ program = "starter_exec" /\ epc = "done" /\ exit.kind = "success"
    /\ program' = "starter_tally"
    /\ reveals' = <<exit.result>>
    /\ tpc' = "start"
    /\ exit' = Running
    /\ UNCHANGED <<ridx, revealed_values>>
    /\ UNCHANGED exec_vars

\* lines 26-47
starter_read_reveal ==
    /\ program = "starter_tally" /\ tpc = "start"
    /\ \E fetched \in BOOLEAN :
         IF ~fetched
         THEN tpc' = "done" /\ exit' = ReturnedErr("get_unfiltered_reveals")
         ELSE IF Len(reveals) # 1
         THEN tpc' = "done" /\ exit' = ReturnedErr("Invalid number of reveals")
         ELSE LET http_response == HttpFetchResponse_from_slice(reveals[1]) IN
              IF ~http_response.ok
              THEN tpc' = "done" /\ exit' = ReturnedErr(http_response.err)
              ELSE IF ~is_ok(http_response.v)
              THEN tpc' = "done" /\ exit' = ReturnedErr("HTTP response not OK")
              ELSE LET response_data == VvsPairsResponse_from_slice(http_response.v.bytes) IN
                   IF ~response_data.ok
                   THEN tpc' = "done" /\ exit' = ReturnedErr(response_data.err)
                   ELSE tpc' = "select" /\ exit' = exit
    /\ UNCHANGED <<program, reveals, ridx, revealed_values>>
    /\ UNCHANGED exec_vars

\* the pools of the reveal that passed lines 26-47
response_data_of(batch) == batch[1].object.bytes.object.data

\* lines 49-85, in one of the orders the map can be visited in
starter_select_pool ==
    /\ program = "starter_tally" /\ tpc = "select"
    /\ \E order \in IterationOrders(response_data_of(reveals)) :
         exit' = tally_selected(response_data_of(reveals), order)
    /\ tpc' = "done"
    /\ UNCHANGED <<program, reveals, ridx, revealed_values>>
    /\ UNCHANGED exec_vars

NextStarterTally ==
    \/ starter_read_reveal
    \/ starter_select_pool

InitStarter == InitStarterExec \/ InitStarterTally
NextStarter == NextStarterExec \/ starter_commit_reveal \/ NextStarterTally
SpecStarter == InitStarter /\ [][NextStarter]_vars

(***************************************************************************)
(* Reference notions used by the properties of the aggregator              *)
(***************************************************************************)
GetRevealsFailed == exit.msg \in {"Tally error: get_reveals", "get_reveals"}
\* the tally ran to its end on the batch
TallyDone == tpc = "done" /\ ~GetRevealsFailed

\* the values the publisher reads back from a success payload
Published == abi_decode_int_array(exit.result).tokens

\* one column per field position: the accepted values at that position
Columns ==
    IF program = "core_tally"
    THEN [i \in 1..ARITY |-> column(revealed_values, i)]
    ELSE <<revealed_values>>

\* k-th smallest value of a non-empty column, by counting
KthSmallest(col, k) ==
    CHOOSE v \in {col[i] : i \in 1..Len(col)} :
        /\ Cardinality({i \in 1..Len(col) : col[i] < v}) < k
        /\ Cardinality({i \in 1..Len(col) : col[i] <= v}) >= k

Low(col) == KthSmallest(col, Len(col) \div 2)
High(col) == KthSmallest(col, Len(col) \div 2 + 1)

RefMedian(col) ==
    IF Len(col) % 2 = 1 THEN KthSmallest(col, (Len(col) + 1) \div 2)
    ELSE (Low(col) + High(col)) \div 2

\* C1: for every non-empty batch of accepted reveals the tally succeeds with
\* one value per field position, in field order, and output field i is the
\* median of the accepted values at position i (middle value for an odd
\* count, floor of the midpoint of the two central values for an even count).
C1_MedianPerField ==
    (TallyDone /\ revealed_values # <<>>) =>
        /\ exit.kind = "success"
        /\ Len(Published) = Len(Columns)
        /\ \A i \in 1..Len(Columns) : Published[i] = RefMedian(Columns[i])

\* C2: for an even number of accepted reveals the per-field median is
\* low + (high - low)/2 of the two central values, and computing it never
\* overflows, wraps or aborts, up to the maximum of the integer type.
C2_OverflowSafeMidpoint ==
    (TallyDone /\ revealed_values # <<>> /\ Len(revealed_values) % 2 = 0) =>
        /\ exit.kind = "success"
        /\ Len(Published) = Len(Columns)
        /\ \A i \in 1..Len(Columns) :
             Published[i] = Low(Columns[i]) + (High(Columns[i]) - Low(Columns[i])) \div 2

\* a reveal "decodes" when the program's decoder accepts it
Decodable(reveal) ==
    IF program = "core_tally" THEN decode_values(reveal).ok
    ELSE u128_from_le_bytes(reveal).ok

DecodedValue(reveal) ==
    IF program = "core_tally" THEN decode_values(reveal).values
    ELSE u128_from_le_bytes(reveal).price

\* the outcome of the aggregation over a batch of decodable reveals
OutcomeOfAccepted(batch) ==
    LET accepted == [i \in 1..Len(batch) |-> DecodedValue(batch[i])] IN
    IF program = "core_tally" THEN tally_outcome(accepted)
    ELSE caplight_outcome(accepted)

\* C3: a reveal that fails to decode is discarded and never aborts the batch:
\* the outcome of a batch with at least one decodable reveal is the outcome
\* of the batch without its undecodable reveals, wherever and however many
\* they are.
C3_BadRevealDiscarded ==
    (TallyDone /\ \E i \in 1..Len(reveals) : Decodable(reveals[i])) =>
        exit = OutcomeOfAccepted(SelectSeq(reveals, Decodable))

C3_Witness ==
    /\ TallyDone
    /\ exit.kind = "success"
    /\ \E i \in 1..Len(reveals) : Decodable(reveals[i])
    /\ \E i \in 1..Len(reveals) : ~Decodable(reveals[i])
    /\ \E i, j \in 1..Len(reveals) :
         i < j /\ ~Decodable(reveals[i]) /\ Decodable(reveals[j])

\* C4: when no reveal of the batch decodes (an empty batch included) the tally
\* ends with the NoConsensus failure signal and never with a success; a
\* success is emitted only when at least one reveal was accepted.
C4_NoConsensus ==
    /\ (TallyDone /\ \A i \in 1..Len(reveals) : ~Decodable(reveals[i]))
           => exit = ProcessError(NoConsensus)
    /\ exit.kind = "success"
           => (revealed_values # <<>> /\ \E i \in 1..Len(reveals) : Decodable(reveals[i]))

C4_Witness ==
    /\ TallyDone
    /\ reveals # <<>>
    /\ \A i \in 1..Len(reveals) : ~Decodable(reveals[i])
    /\ exit = ProcessError(NoConsensus)

\* the reveals of the batch that are well-formed int256[] payloads
IsIntArray(reveal) == abi_decode_int_array(reveal).ok
FieldCount(reveal) == Len(abi_decode_int_array(reveal).tokens)

ArityMismatch == "Tally error: Mismatched value length in reveals"

\* C5 (as stated): when the reveals that decode as integer arrays do not all
\* have the same number of fields, the aggregation fails with ArityMismatch
\* and emits no median vector.
C5_ArityMismatchFails ==
    (/\ program = "core_tally" /\ TallyDone
     /\ \E i, j \in 1..Len(reveals) :
          /\ IsIntArray(reveals[i]) /\ IsIntArray(reveals[j])
          /\ FieldCount(reveals[i]) # FieldCount(reveals[j]))
        => exit = ProcessError(ArityMismatch)

HasArity(reveal) == IsIntArray(reveal) /\ FieldCount(reveal) = ARITY

\* C5 (amended): a reveal that decodes as an integer array with a number of
\* fields other than 4 is discarded like an undecodable reveal: the accepted
\* reveals are exactly the 4-field arrays of the batch, in batch order, and
\* the tally never ends with ArityMismatch.
C5_WrongArityDiscarded ==
    (program = "core_tally" /\ TallyDone) =>
        /\ LET kept == SelectSeq(reveals, HasArity) IN
             revealed_values = [i \in 1..Len(kept) |-> abi_decode_int_array(kept[i]).tokens]
        /\ exit.msg # ArityMismatch

C5_Witness ==
    /\ program = "core_tally" /\ TallyDone
    /\ exit.kind = "success"
    /\ \E i, j \in 1..Len(reveals) :
          /\ IsIntArray(reveals[i]) /\ IsIntArray(reveals[j])
          /\ FieldCount(reveals[i]) = 3 /\ FieldCount(reveals[j]) = ARITY

Permuted(batch, p) == [i \in 1..Len(batch) |-> batch[p[i]]]

Swap(n, a, b) == [i \in 1..n |-> IF i = a THEN b ELSE IF i = b THEN a ELSE i]

\* Every permutation of a batch of up to 4 reveals; for a longer batch the
\* exchanges of two positions, which generate every permutation (the batches
\* reached by the exchanges are batches of the model as well).
Reorderings(n) ==
    IF n <= 4 THEN Permutations(1..n)
    ELSE {Swap(n, a, b) : a, b \in 1..n}

\* C6: the tally outcome depends only on the multiset of reveals: every
\* permutation of the batch gives the outcome this run ended with; and with a
\* single accepted reveal the output vector is that reveal's values.
C6_OrderIndependent ==
    TallyDone =>
        /\ \A p \in Reorderings(Len(reveals)) :
             LET batch == Permuted(reveals, p) IN
             exit = OutcomeOfAccepted(SelectSeq(batch, Decodable))
        /\ Len(revealed_values) = 1 =>
             /\ exit.kind = "success"
             /\ Published = IF program = "core_tally" THEN revealed_values[1]
                            ELSE <<revealed_values[1]>>

C6_Witness ==
    /\ TallyDone
    /\ exit.kind = "success"
    /\ Len(revealed_values) >= 3
    /\ \E i, j \in 1..Len(revealed_values) :
         i < j /\ Columns[1][i] > Columns[1][j]

C6_WitnessSingle ==
    TallyDone /\ Len(revealed_values) = 1 /\ exit.kind = "success"

(***************************************************************************)
(* Reference notions used by the properties of price derivation            *)
(***************************************************************************)
CoreRun == program = "core_exec"
FeedRun == program = "evm_feed"
FeedV2Priced == FeedRun /\ epc = "done" /\ token0 # <<>> /\ feed_config.kind = "v2"
FeedV3Priced == FeedRun /\ epc = "done" /\ token0 # <<>> /\ feed_config.kind = "v3"

IsBase(config, t0) == eq_ignore_ascii_case(t0, config.base)
IsQuote(config, t0) == eq_ignore_ascii_case(t0, config.quote)
Resolved(config, t0) == IsBase(config, t0) \/ IsQuote(config, t0)

\* the same pool seen with the other token as token0
MirrorToken(config, t0) == IF IsBase(config, t0) THEN config.quote ELSE config.base
MirrorReserves(reserves) == [reserve0 |-> reserves.reserve1, reserve1 |-> reserves.reserve0]

BaseSide(config, t0, reserves) ==
    IF IsBase(config, t0) THEN reserves.reserve0 ELSE reserves.reserve1
QuoteSide(config, t0, reserves) ==
    IF IsBase(config, t0) THEN reserves.reserve1 ELSE reserves.reserve0

\* what the core pipeline holds after deriving a price from `reserves`:
\* the value in `held`, or the failure in exit
CoreHolds(result, held) ==
    IF result.ok THEN held = result.v ELSE exit = Failure(result)

\* what the price feed ends with after deriving a price
FeedHolds(result) ==
    IF result.ok THEN exit = ProcessSuccess(to_le_bytes(result.v))
    ELSE exit = ReturnedErr(result.err)

\* C7: the price held after a derivation is the one the mirrored pool (the
\* other token as token0, the two reserves exchanged) gives, as a value or as
\* the same failure, in the core pipeline (both samples) and in the price feed
C7_OrderResolutionSymmetric ==
    /\ (CoreRun /\ Resolved(CorePairConfig, token0) /\ latest_reserves # NoReserves)
         => CoreHolds(price_from_reserves(CorePairConfig,
                         MirrorToken(CorePairConfig, token0),
                         MirrorReserves(latest_reserves)), spot_now)
    /\ (CoreRun /\ Resolved(CorePairConfig, token0) /\ reserves_24h # NoReserves)
         => CoreHolds(price_from_reserves(CorePairConfig,
                         MirrorToken(CorePairConfig, token0),
                         MirrorReserves(reserves_24h)), price_24h)
    /\ (FeedV2Priced /\ Resolved(feed_config, token0))
         => FeedHolds(price_from_v2(feed_config, MirrorToken(feed_config, token0),
                                    MirrorReserves(latest_reserves)))

\* token0 is the quote token, the reserves differ, and a price was derived
C7_Witness ==
    /\ CoreRun /\ IsQuote(CorePairConfig, token0)
    /\ latest_reserves # NoReserves
    /\ latest_reserves.reserve0 = 100 /\ latest_reserves.reserve1 = 5000
    /\ spot_now = 200
    /\ epc = "reserves_24h"

C7_WitnessFeed ==
    /\ FeedV2Priced /\ IsQuote(feed_config, token0)
    /\ feed_config.base_decimals # feed_config.quote_decimals
    /\ latest_reserves.reserve0 # latest_reserves.reserve1
    /\ exit.kind = "success"

\* C8: a zero base-side reserve ends the run with the domain error, a zero
\* squared square-root price on the inverted path ends it with the zero-price
\* error, and in every other derivation the divisor is nonzero and the
\* division does not trap
C8_NoSilentDivideByZero ==
    /\ (CoreRun /\ Resolved(CorePairConfig, token0) /\ latest_reserves # NoReserves)
         => IF BaseSide(CorePairConfig, token0, latest_reserves) = 0
            THEN exit = ProcessError("Base reserve is zero")
            ELSE /\ price_denominator(CorePairConfig,
                        BaseSide(CorePairConfig, token0, latest_reserves)) # 0
                 /\ epc \in {"reserves_24h", "signal"} => exit = Running
    /\ (CoreRun /\ Resolved(CorePairConfig, token0) /\ reserves_24h # NoReserves)
         => IF BaseSide(CorePairConfig, token0, reserves_24h) = 0
            THEN exit = ProcessError("Base reserve is zero")
            ELSE /\ price_denominator(CorePairConfig,
                        BaseSide(CorePairConfig, token0, reserves_24h)) # 0
                 /\ epc = "signal" => exit = Running
    /\ (FeedV2Priced /\ Resolved(feed_config, token0))
         => IF BaseSide(feed_config, token0, latest_reserves) = 0
            THEN exit = ReturnedErr("Base reserve is zero")
            ELSE /\ saturating_mul(BaseSide(feed_config, token0, latest_reserves),
                                   pow10_u256(feed_config.quote_decimals)) # 0
                 /\ exit.kind # "panic"
    /\ (FeedV3Priced /\ IsBase(feed_config, token0))
         => /\ saturating_mul(q192, pow10_u256(feed_config.quote_decimals)) # 0
            /\ exit.kind # "panic"
    /\ (FeedV3Priced /\ IsQuote(feed_config, token0) /\ ~IsBase(feed_config, token0))
         => LET price_x192 == saturating_mul(latest_reserves.sqrt_price_x96,
                                             latest_reserves.sqrt_price_x96) IN
            IF price_x192 = 0
            THEN exit = ReturnedErr("Price is zero")
            ELSE /\ saturating_mul(pow10_u256(feed_config.base_decimals), price_x192) # 0
                 /\ exit.kind # "panic"

\* the core pipeline stopped on a pool whose base side is empty
C8_Witness ==
    /\ CoreRun /\ IsQuote(CorePairConfig, token0)
    /\ latest_reserves # NoReserves
    /\ latest_reserves.reserve1 = 0 /\ latest_reserves.reserve0 > 0
    /\ exit = ProcessError("Base reserve is zero")

C8_WitnessZeroPrice ==
    /\ FeedV3Priced /\ IsQuote(feed_config, token0)
    /\ latest_reserves.sqrt_price_x96 = 0
    /\ exit = ReturnedErr("Price is zero")

\* floor(x * m / d) and the remainder, for x < d, by doubling: no
\* intermediate value exceeds 3 * d
RECURSIVE MulDivRem(_, _, _)
MulDivRem(x, m, d) ==
    IF m = 0 THEN [q |-> 0, r |-> 0]
    ELSE LET h == MulDivRem(x, m \div 2, d)
             t == 2 * h.r + (m % 2) * x
         IN  [q |-> 2 * h.q + t \div d, r |-> t % d]

\* the least of floor(q * m / b) and U128_MAX + 1, over unbounded integers
ExactQuotient(q, m, b) ==
    IF q \div b > (U128_MAX + 1) \div m THEN U128_MAX + 1
    ELSE Min((q \div b) * m + MulDivRem(q % b, m, b).q, U128_MAX + 1)

\* floor(quote * 10^base_decimals * SCALE / (base * 10^quote_decimals)) over
\* unbounded integers, every value above U128_MAX given as U128_MAX + 1
ExactPrice(config, base_side, quote_side) ==
    IF config.base_decimals + SCALE_DIGITS >= config.quote_decimals
    THEN ExactQuotient(quote_side,
                       Pow10(config.base_decimals + SCALE_DIGITS - config.quote_decimals),
                       base_side)
    ELSE Min((quote_side \div base_side)
               \div Pow10(config.quote_decimals - config.base_decimals - SCALE_DIGITS),
             U128_MAX + 1)

ExactOutcome(config, t0, reserves, held) ==
    LET exact == ExactPrice(config, BaseSide(config, t0, reserves),
                            QuoteSide(config, t0, reserves)) IN
    IF exact > U128_MAX THEN exit = ProcessError("Value exceeds u128 range")
    ELSE held = exact

\* C9: after a constant-product derivation on a pool with a nonzero base side
\* the pipeline holds the exact floor of the formula, or has stopped with the
\* range error when the exact value exceeds 128 bits
C9_ExactPriceOrRangeError ==
    /\ (CoreRun /\ Resolved(CorePairConfig, token0) /\ latest_reserves # NoReserves
          /\ BaseSide(CorePairConfig, token0, latest_reserves) # 0)
         => ExactOutcome(CorePairConfig, token0, latest_reserves, spot_now)
    /\ (CoreRun /\ Resolved(CorePairConfig, token0) /\ reserves_24h # NoReserves
          /\ BaseSide(CorePairConfig, token0, reserves_24h) # 0)
         => ExactOutcome(CorePairConfig, token0, reserves_24h, price_24h)

\* the same statement restricted to reserves whose scaled products stay
\* within 256 bits
Unsaturated(config, t0, reserves) ==
    /\ QuoteSide(config, t0, reserves)
         <= U256_MAX \div Pow10(config.base_decimals + SCALE_DIGITS)
    /\ BaseSide(config, t0, reserves) <= U256_MAX \div Pow10(config.quote_decimals)

C9_ExactWithoutSaturation ==
    (CoreRun /\ Resolved(CorePairConfig, token0) /\ latest_reserves # NoReserves
       /\ BaseSide(CorePairConfig, token0, latest_reserves) # 0
       /\ Unsaturated(CorePairConfig, token0, latest_reserves))
      => ExactOutcome(CorePairConfig, token0, latest_reserves, spot_now)

FairPriceExact == (2 * spot_now + price_24h) \div 3

\* C10: the step that emits the signal computes the fair price as
\* floor((2 * spot_now + price_24h) / 3) without saturating, wrapping or
\* aborting, and a published signal carries that value as its first field
C10_FairPriceExact ==
    [][core_emit_signal =>
          /\ fair_price_of(spot_now, price_24h, overflow_checks) = FairPriceExact
          /\ exit'.kind = "success"
               => abi_decode_int_array(exit'.result).tokens[1] = FairPriceExact]_vars

\* the same statement restricted to samples whose weighted sum fits 128 bits
C10_FairPriceExactInRange ==
    [][(core_emit_signal /\ 2 * spot_now + price_24h <= U128_MAX) =>
          /\ fair_price_of(spot_now, price_24h, overflow_checks) = FairPriceExact
          /\ exit'.kind = "success"
               => abi_decode_int_array(exit'.result).tokens[1] = FairPriceExact]_vars

(***************************************************************************)
(* Reference notions used by the properties of the analytics signal        *)
(***************************************************************************)
AnalyticsRun == program = "core_analytics"
\* the statement of line 70 was reached: lines 67 and 69 succeeded
DeltaReached == AnalyticsRun /\ epc = "done" /\ signal.stage >= 2

\* floor(|spot_now - price_24h| * SCALE / spot_now) over unbounded integers
ExactDivergence == (abs_diff_u128(spot_now, price_24h) * SCALE) \div spot_now

\* C11: once line 70 is reached, a zero spot price ends the run with the
\* divide-by-zero error, and any other spot price gives the divergence
\* min(SCALE, floor(|spot_now - price_24h| * SCALE / spot_now)), which lies in
\* 0..SCALE; the computation never aborts
C11_DivergenceCapped ==
    DeltaReached =>
        IF spot_now = 0
        THEN exit = ProcessError("Division by zero")
        ELSE /\ signal.stage >= 3
             /\ signal.delta_1e6 = Min(SCALE, ExactDivergence)
             /\ signal.delta_1e6 \in 0..SCALE

\* the same statement restricted to samples whose uncapped ratio fits 128 bits
C11_DivergenceCappedInRange ==
    (DeltaReached /\ spot_now # 0 /\ ExactDivergence <= U128_MAX) =>
        /\ signal.stage >= 3
        /\ signal.delta_1e6 = Min(SCALE, ExactDivergence)

C11_ZeroSpotFails ==
    (DeltaReached /\ spot_now = 0) => exit = ProcessError("Division by zero")

AnalyticsQuoteSide == QuoteSide(CorePairConfig, token0, latest_reserves)
AnalyticsBaseSide == BaseSide(CorePairConfig, token0, latest_reserves)

RefLiquidityScore(reserve) ==
    IF reserve >= LIQUIDITY_TARGET_USDC_1E6 THEN SCALE
    ELSE (reserve * SCALE) \div LIQUIDITY_TARGET_USDC_1E6

RefTimeScore(delta) ==
    IF delta >= DIVERGENCE_WARN_1E6 THEN 0
    ELSE SCALE - (delta * SCALE) \div DIVERGENCE_WARN_1E6

RefConfidence(liquidity, time) ==
    (LIQUIDITY_WEIGHT * liquidity + TIME_WEIGHT * time) \div SCALE

DeltaSamples ==
    {0, 1, DIVERGENCE_WARN_1E6 - 1, DIVERGENCE_WARN_1E6, DIVERGENCE_WARN_1E6 + 1,
     SCALE - 1, SCALE}
ScoreSamples == {0, 1, LIQUIDITY_WARN_SCORE, SCALE \div 2, SCALE - 1, SCALE}

\* C12: every score computed by a run is the claimed function of its inputs
\* and lies in 0..SCALE, the confidence being the 60/40 weighting of the
\* other two; the same holds of the three functions on the sample deltas and
\* scores
C12_ScoresInRange ==
    /\ (AnalyticsRun /\ signal.stage >= 2)
         => /\ signal.liquidity_score = RefLiquidityScore(AnalyticsQuoteSide)
            /\ signal.liquidity_score \in 0..SCALE
    /\ (AnalyticsRun /\ signal.stage >= 4)
         => /\ signal.time_score = RefTimeScore(signal.delta_1e6)
            /\ signal.time_score \in 0..SCALE
    /\ (AnalyticsRun /\ signal.stage >= 5)
         => /\ signal.confidence_score
                 = RefConfidence(signal.liquidity_score, signal.time_score)
            /\ signal.confidence_score \in 0..SCALE
    /\ (AnalyticsRun /\ signal.stage >= 3) => signal.stage >= 5
    /\ AnalyticsRun =>
         /\ \A delta \in DeltaSamples :
              temporal_score(delta) = RefTimeScore(delta) /\ temporal_score(delta) \in 0..SCALE
         /\ \A liquidity \in ScoreSamples, time \in ScoreSamples :
              /\ confidence_of(liquidity, time) = RefConfidence(liquidity, time)
              /\ confidence_of(liquidity, time) \in 0..SCALE

\* a reserve at or above the target, a divergence below the threshold, and
\* the three scores computed
C12_Witness ==
    /\ AnalyticsRun /\ signal.stage >= 5
    /\ AnalyticsQuoteSide = U256_MAX
    /\ signal.liquidity_score = SCALE
    /\ signal.delta_1e6 > 0 /\ signal.delta_1e6 < DIVERGENCE_WARN_1E6
    /\ signal.time_score > 0 /\ signal.time_score < SCALE
    /\ signal.confidence_score > LIQUIDITY_WEIGHT

C12_WitnessBelowTarget ==
    /\ AnalyticsRun /\ signal.stage >= 5
    /\ signal.liquidity_score > 0 /\ signal.liquidity_score < SCALE
    /\ signal.time_score = 0

Bit(value, n) == (value \div (2 ^ n)) % 2 = 1

\* C13: the flags of a run are the bitmask of the three conditions and
\* nothing else, 7 when all three hold; a run that reached the flags ends
\* with success and publishes them as the fourth field
C13_FlagsBitmask ==
    /\ (AnalyticsRun /\ signal.stage >= 7)
         => /\ Bit(signal.flags, 0) <=> signal.delta_1e6 > DIVERGENCE_WARN_1E6
            /\ Bit(signal.flags, 1) <=> signal.liquidity_score < LIQUIDITY_WARN_SCORE
            /\ Bit(signal.flags, 2) <=> signal.confidence_score < CONFIDENCE_WARN_SCORE
            /\ signal.flags \in 0..7
            /\ ( /\ signal.delta_1e6 > DIVERGENCE_WARN_1E6
                 /\ signal.liquidity_score < LIQUIDITY_WARN_SCORE
                 /\ signal.confidence_score < CONFIDENCE_WARN_SCORE ) => signal.flags = 7
            /\ exit.kind = "success"
            /\ abi_decode_int_array(exit.result).tokens[4] = signal.flags
    /\ (AnalyticsRun /\ signal.stage >= 6) => signal.stage = 7

\* all three conditions hold and the run succeeded with flags 7
C13_Witness ==
    /\ AnalyticsRun /\ signal.stage = 7
    /\ signal.delta_1e6 > DIVERGENCE_WARN_1E6
    /\ signal.liquidity_score < LIQUIDITY_WARN_SCORE
    /\ signal.confidence_score < CONFIDENCE_WARN_SCORE
    /\ signal.flags = 7
    /\ exit.kind = "success"

\* the divergence sits exactly on the threshold: bit 0 is clear
C13_WitnessOnThreshold ==
    /\ AnalyticsRun /\ signal.stage = 7
    /\ signal.delta_1e6 = DIVERGENCE_WARN_1E6
    /\ ~Bit(signal.flags, 0)

\* the sizing statement of lines 77-81 returned a value
SizeReturned == AnalyticsRun /\ epc = "done" /\ signal.stage >= 6

\* the constant-product trade of `amount_in` with the 0.3% fee, the price it
\* is executed at and its slippage against the spot price, over unbounded
\* integers
RefAmountOut(amount_in, reserve_in, reserve_out) ==
    (amount_in * FEE_NUMERATOR * reserve_out)
        \div (reserve_in * FEE_DENOMINATOR + amount_in * FEE_NUMERATOR)

RefEffectivePrice(amount_in, reserve_in, reserve_out) ==
    (amount_in * EFFECTIVE_PRICE_UNIT) \div RefAmountOut(amount_in, reserve_in, reserve_out)

RefFeasible(amount_in, reserve_in, reserve_out, spot, limit) ==
    /\ RefAmountOut(amount_in, reserve_in, reserve_out) > 0
    /\ spot > 0
    /\ (abs_diff_u128(RefEffectivePrice(amount_in, reserve_in, reserve_out), spot) * SCALE)
          \div spot < limit

\* C14: a returned size x satisfies 0 <= x <= reserve_in / 2, and either
\* x = 0 or trading x gives a nonzero amount out at an effective price within
\* the slippage bound of the spot price
C14_SizeWithinBound ==
    SizeReturned =>
        LET x == signal.max_safe_execution_size IN
        /\ x >= 0
        /\ x <= AnalyticsQuoteSide \div 2
        /\ \/ x = 0
           \/ RefFeasible(x, AnalyticsQuoteSide, AnalyticsBaseSide, spot_now,
                          SLIPPAGE_LIMIT_1E6)

\* a nonzero size was returned
C14_Witness ==
    /\ SizeReturned
    /\ signal.max_safe_execution_size > 1
    /\ signal.max_safe_execution_size < AnalyticsQuoteSide \div 2
    /\ exit.kind = "success"

C14_WitnessNone ==
    /\ SizeReturned
    /\ AnalyticsQuoteSide > 1 /\ AnalyticsBaseSide > 0 /\ spot_now > 0
    /\ signal.max_safe_execution_size = 0

\* the slippage the loop sees for a size: SCALE + 1 when nothing comes out of
\* the trade, -1 when the probe fails or traps
ProbeRank(amount_in) ==
    LET probed == probe(amount_in, AnalyticsQuoteSide, AnalyticsBaseSide, spot_now) IN
    IF ~probed.ok THEN -1
    ELSE IF probed.amount_out = 0 THEN SCALE + 1
    ELSE probed.slippage

\* slippage is defined and non-decreasing over every size up to reserve_in / 2
SlippageMonotone ==
    \A x \in 1..(AnalyticsQuoteSide \div 2) :
        /\ ProbeRank(x) >= 0
        /\ x > 1 => ProbeRank(x - 1) <= ProbeRank(x)

\* C15: when slippage is non-decreasing in the trade size, no size above the
\* returned one and up to reserve_in / 2 is within the slippage bound
C15_LargestFeasible ==
    (SizeReturned /\ AnalyticsBaseSide > 0 /\ spot_now > 0 /\ SlippageMonotone) =>
        \A x \in (signal.max_safe_execution_size + 1)..(AnalyticsQuoteSide \div 2) :
            ~within_bound(ProbeRank(x), SLIPPAGE_LIMIT_1E6)

\* the same statement for sizes from 2 on: size 1 is the one the loop cannot
\* probe while its lower end is 0
C15_LargestFeasibleAboveOne ==
    (SizeReturned /\ AnalyticsBaseSide > 0 /\ spot_now > 0 /\ SlippageMonotone) =>
        \A x \in (signal.max_safe_execution_size + 1)..(AnalyticsQuoteSide \div 2) :
            x > 1 => ~within_bound(ProbeRank(x), SLIPPAGE_LIMIT_1E6)

\* the largest trade size whose slippage is compared
MaxTradeSize == 24

\* the slippages of lines 368-381 for the sizes that yield a nonzero amount
\* out, -1 for the other sizes
SlippageBySize ==
    [x \in 1..Min(AnalyticsQuoteSide \div 2, MaxTradeSize) |->
        LET probed == probe(x, AnalyticsQuoteSide, AnalyticsBaseSide, spot_now) IN
        IF probed.ok /\ probed.amount_out > 0 THEN probed.slippage ELSE -1]

\* C24: for positive reserves and every spot price, the slippage computed
\* for a trade size is non-decreasing over the sizes that yield a nonzero
\* amount out.
C24_SlippageMonotone ==
    (AnalyticsRun /\ epc = "done" /\ spot_now > 0
       /\ AnalyticsQuoteSide > 0 /\ AnalyticsBaseSide > 0) =>
        LET slippage == SlippageBySize IN
        \A x, y \in DOMAIN slippage :
            (x < y /\ slippage[x] >= 0 /\ slippage[y] >= 0) => slippage[x] <= slippage[y]

\* the same statement for a spot price at most the effective price of every
\* compared size and a pool whose amount out grows with each unit of size
C24_SlippageMonotoneAboveSpot ==
    (AnalyticsRun /\ epc = "done" /\ spot_now > 0
       /\ AnalyticsQuoteSide > 0 /\ AnalyticsBaseSide > 0) =>
        LET slippage == SlippageBySize
            price(x) == RefEffectivePrice(x, AnalyticsQuoteSide, AnalyticsBaseSide)
        IN  \A x, y \in DOMAIN slippage :
              (/\ x < y /\ slippage[x] >= 0 /\ slippage[y] >= 0
               /\ \A z \in x..y : price(z) >= spot_now
               /\ \A z \in x..(y - 1) : price(z) <= price(z + 1))
              => slippage[x] <= slippage[y]

\* the iterations of the sizing loop on the reserves and spot price of the run
LoopTrace ==
    search_trace(SLIPPAGE_LIMIT_1E6, 0, 0, AnalyticsQuoteSide \div 2, 0,
                 AnalyticsQuoteSide, AnalyticsBaseSide, spot_now)

SizingEntered ==
    /\ AnalyticsRun /\ epc = "done" /\ signal.stage >= 5
    /\ AnalyticsQuoteSide > 0 /\ AnalyticsBaseSide > 0

\* C27: after every iteration of the sizing loop high and best are at most
\* reserve_in / 2, low = best + 1 unless both are 0, best has not decreased,
\* a newly assigned best is the probed size and is within the slippage
\* bound; the loop ends within SEARCH_ITERATIONS iterations, and the size
\* returned is the last best.
C27_LoopInvariant ==
    SizingEntered =>
        LET trace == LoopTrace
            before(k) == IF k = 1 THEN 0 ELSE trace[k - 1].best
        IN  /\ Len(trace) <= SEARCH_ITERATIONS
            /\ \A k \in 1..Len(trace) :
                 /\ trace[k].high <= AnalyticsQuoteSide \div 2
                 /\ trace[k].best <= AnalyticsQuoteSide \div 2
                 /\ \/ trace[k].low = 0 /\ trace[k].best = 0
                    \/ trace[k].low = trace[k].best + 1
                 /\ trace[k].best >= before(k)
                 /\ trace[k].best # before(k) =>
                      /\ trace[k].best = trace[k].mid
                      /\ RefFeasible(trace[k].mid, AnalyticsQuoteSide, AnalyticsBaseSide,
                                     spot_now, SLIPPAGE_LIMIT_1E6)
            /\ signal.stage >= 6 =>
                 signal.max_safe_execution_size =
                     (IF trace = <<>> THEN 0 ELSE trace[Len(trace)].best)

\* the loop ran all its iterations, the last ones with low above high
C27_Witness ==
    /\ SizingEntered /\ signal.stage >= 6
    /\ Len(LoopTrace) = SEARCH_ITERATIONS
    /\ LoopTrace[SEARCH_ITERATIONS].low > LoopTrace[SEARCH_ITERATIONS].high
    /\ LoopTrace[SEARCH_ITERATIONS].best > 1

BoundSamples ==
    {0, 1, SLIPPAGE_LIMIT_1E6 \div 2, SLIPPAGE_LIMIT_1E6, 2 * SLIPPAGE_LIMIT_1E6,
     DIVERGENCE_WARN_1E6, SCALE, SCALE + 1}

SizesByBound ==
    [limit \in BoundSamples |->
        sizing(limit, AnalyticsQuoteSide, AnalyticsBaseSide, spot_now)]

\* C16: with the reserves and the spot price of the run, the size returned
\* under a smaller slippage bound is at most the size returned under a larger
\* one, the run's own size being the one of the configured bound
C16_MonotoneInBound ==
    (AnalyticsRun /\ epc = "done" /\ signal.stage >= 5) =>
        LET sizes == SizesByBound IN
        /\ \A b1, b2 \in BoundSamples :
             (b1 <= b2 /\ sizes[b1].ok /\ sizes[b2].ok) => sizes[b1].v <= sizes[b2].v
        /\ signal.stage >= 6 <=> sizes[SLIPPAGE_LIMIT_1E6].ok
        /\ signal.stage >= 6 => signal.max_safe_execution_size = sizes[SLIPPAGE_LIMIT_1E6].v

\* three bounds give three different sizes
C16_Witness ==
    /\ SizeReturned
    /\ SizesByBound[0].ok /\ SizesByBound[SCALE + 1].ok
    /\ SizesByBound[0].v < signal.max_safe_execution_size
    /\ signal.max_safe_execution_size < SizesByBound[SCALE + 1].v

(***************************************************************************)
(* Input boundary                                                          *)
(***************************************************************************)
CaplightRun == program = "caplight_exec"
ExecRun == CoreRun \/ FeedRun \/ CaplightRun

\* the identifiers a pipeline serves
Supported(prog, text) ==
    IF prog = "core_exec" THEN to_uppercase(text) = TARGET_PAIR
    ELSE IF prog = "evm_feed" THEN \E config \in FeedConfigs : config.id = to_uppercase(text)
    ELSE text \in ALLOWED_PITCHBOOK_IDS

Missing(raw) == raw.utf8 /\ raw.shape = "blank"
Malformed(raw) == ~raw.utf8 \/ (raw.shape = "object" /\ ~raw.has_pair)
NamesIdentifier(raw) ==
    /\ raw.utf8
    /\ raw.shape \in {"bare", "string", "object"}
    /\ raw.shape = "object" => raw.has_pair
Unsupported(prog, raw) == NamesIdentifier(raw) /\ ~Supported(prog, raw.text)
InvalidInput(prog, raw) == Missing(raw) \/ Malformed(raw) \/ Unsupported(prog, raw)

\* the run ended in failure: Process::error, or Err returned to the caller
EndedInFailure == epc = "done" /\ exit.kind \in {"error", "returned_err"}

ValidationFirst ==
    /\ rpc_log # <<>> => Supported(program, pair)
    /\ InvalidInput(program, input) => rpc_log = <<>>
    /\ InvalidInput(program, input) /\ epc # "start" => EndedInFailure

\* C17: in every execution pipeline no remote call is issued before the input
\* has been parsed into a supported identifier, and a run whose input is
\* missing, malformed or names an unsupported identifier ends in failure with
\* no remote call issued.
C17_ValidationFirst == ExecRun => ValidationFirst

\* C17, except for the missing input of the price feed, which stands for the
\* default pair: validation precedes every remote call.
C17_ValidationFirstGivenInput ==
    ExecRun /\ ~(FeedRun /\ Missing(input)) => ValidationFirst

\* the price feed has served a missing input
C17_WitnessDefaultPair ==
    FeedRun /\ Missing(input) /\ exit.kind = "success" /\ Len(rpc_log) = 2

BothFormsAccepted ==
    /\ input.shape \in {"bare", "object"}
    /\ NamesIdentifier(input)
    /\ Supported(program, input.text)
    /\ epc # "start"
    => pair = (IF CaplightRun THEN input.text ELSE to_uppercase(input.text))

\* C18: a supported identifier is accepted both as bare text and as the `pair`
\* member of a JSON object, and resolves to the same pair, in the analytics
\* pipeline and in the price feed.
C18_BothFormsAccepted == CoreRun \/ FeedRun => BothFormsAccepted

\* C18 for the feed variants only: both forms are accepted.
C18_BothFormsAcceptedByFeeds == FeedRun \/ CaplightRun => BothFormsAccepted

\* C18 for the analytics pipeline: the object form is accepted, bare text is
\* rejected before any remote call.
C18_CoreAcceptsObjectOnly ==
    CoreRun /\ NamesIdentifier(input) /\ Supported(program, input.text) /\ epc # "start"
    => IF input.shape = "object" THEN pair = TARGET_PAIR
       ELSE pair = <<>> /\ rpc_log = <<>> /\ exit.kind = "error"

C18_WitnessFeedBare ==
    FeedRun /\ input.shape = "bare" /\ input.text = to_lowercase(TXT_WCRO_USDC)
    /\ pair = TXT_WCRO_USDC /\ exit.kind = "success"

(***************************************************************************)
(* Terminal signals                                                        *)
(***************************************************************************)
\* the run has ended with a success signal or with a failure signal that
\* carries a message
ExplicitSignal ==
    \/ exit.kind = "success"
    \/ exit.kind = "error" /\ exit.msg # ""

\* C19: every run of the analytics execution phase and of its tally phase
\* ends with a success signal or with an explicit failure signal carrying a
\* message; no error ends the run without a failure signal.
C19_ExplicitTerminalSignal ==
    /\ CoreRun /\ epc = "done" => ExplicitSignal
    /\ program = "core_tally" /\ tpc = "done" => ExplicitSignal

\* C19 for the runs that end before the second reserves are read (input,
\* transport, decode, token mismatch, zero reserve, value out of range): each
\* error ends in an explicit failure.
C19_ExplicitBeforeSignal ==
    CoreRun /\ epc = "done" /\ reserves_24h = NoReserves => ExplicitSignal

\* the sizing step trapped on a 256-bit overflow of amm_amount_out
C19_WitnessSizingTrap ==
    CoreRun /\ epc = "done" /\ signal.stage = 5 /\ exit.kind = "panic"

(***************************************************************************)
(* Fixed-point reveals                                                     *)
(***************************************************************************)
\* floor(price * SCALE) of a decimal literal, in integers
ExactScaled(price) == (price.digits * SCALE) \div Pow10(price.frac)

CaplightRevealed == CaplightRun /\ exit.kind = "success"

\* C20: every reveal is the result of integer/fixed-point arithmetic; the
\* price reveal is the decimal price scaled by SCALE, with no floating-point
\* rounding.
C20_FixedPointReveal ==
    CaplightRevealed /\ ExactScaled(caplight_price) <= U128_MAX
    => u128_from_le_bytes(exit.result).price = ExactScaled(caplight_price)

\* C20, one-sided: the reveal is within one unit of the exact scaled price.
C20_RevealWithinOneUnit ==
    CaplightRevealed /\ ExactScaled(caplight_price) <= U128_MAX
    => LET revealed == u128_from_le_bytes(exit.result).price IN
       revealed - ExactScaled(caplight_price) \in {-1, 0, 1}

\* the price 2.01 was revealed
C20_WitnessRounded ==
    CaplightRevealed /\ caplight_price = [present |-> TRUE, digits |-> 201, frac |-> 2]
    /\ spot_now = 2009

(***************************************************************************)
(* Concentrated-liquidity price with token0 the quote token                *)
(***************************************************************************)
\* pools of the USDT-USDC kind with equal and with different decimals
V3ConfigSamples ==
    { FeedConfig(TXT_USDT_USDC, "v3", "USDT_USDC_V3_POOL", USDT_ADDRESS, USDC_ADDRESS,
                 decimals[1], decimals[2]) :
        decimals \in {<<1, 1>>, <<1, 0>>, <<0, 1>>} }

\* floor(SCALE * 10^base_decimals / (r * 10^quote_decimals)) for the raw
\* ratio r = sqrt_price^2 / 2^192, as a price or the range error
ExactInversePrice(config, sqrt_price_x96) ==
    u256_to_u128((SCALE * Pow10(config.base_decimals) * q192)
                    \div (Pow10(config.quote_decimals) * sqrt_price_x96 * sqrt_price_x96))

\* a square-root price was read whose square and scaled square fit 256 bits
V3SquareInRange ==
    /\ FeedV3Priced
    /\ latest_reserves.sqrt_price_x96 > 0
    /\ latest_reserves.sqrt_price_x96 <= 2 * Q96

\* C28: with token0 the quote token the concentrated-liquidity price is
\* floor(SCALE * 10^base_decimals / (r * 10^quote_decimals)), the decimal
\* adjustment of the constant-product path, whether or not the two decimals
\* are equal.
C28_V3InverseDecimals ==
    V3SquareInRange =>
        \A config \in V3ConfigSamples :
            price_from_v3(config, config.quote, latest_reserves.sqrt_price_x96)
                = ExactInversePrice(config, latest_reserves.sqrt_price_x96)

\* the same statement for the configured pool, whose decimals are equal: the
\* run ends with that price
C28_V3InverseEqualDecimals ==
    V3SquareInRange /\ IsQuote(feed_config, token0) =>
        FeedHolds(ExactInversePrice(feed_config, latest_reserves.sqrt_price_x96))

\* the constant-product path applies the decimals as the statement says
C28_V2InverseDecimals ==
    (FeedV2Priced /\ IsQuote(feed_config, token0) /\ latest_reserves.reserve1 > 0
       /\ Unsaturated(feed_config, token0, latest_reserves)) =>
        FeedHolds(u256_to_u128(
            (latest_reserves.reserve0 * SCALE * Pow10(feed_config.base_decimals))
                \div (latest_reserves.reserve1 * Pow10(feed_config.quote_decimals))))

\* the configured pool was priced with token0 the quote token
C28_WitnessEqualDecimals ==
    /\ V3SquareInRange /\ IsQuote(feed_config, token0)
    /\ latest_reserves.sqrt_price_x96 = Q96 \div 2
    /\ exit = ProcessSuccess(to_le_bytes(4 * SCALE))

(***************************************************************************)
(* Signed fields                                                           *)
(***************************************************************************)
\* the int256 a 256-bit word stands for, in two's complement
Signed(word) == IF word > U256_MAX \div 2 THEN word - (U256_MAX + 1) ELSE word

SignedColumn(col) == [i \in 1..Len(col) |-> Signed(col[i])]

\* the medians of a column of signed values: the middle value, or the
\* midpoint of the two central values rounded down or towards zero
SignedMedians(col) ==
    IF Len(col) % 2 = 1 THEN {KthSmallest(col, (Len(col) + 1) \div 2)}
    ELSE LET sum == Low(col) + High(col) IN
         {sum \div 2, IF sum < 0 THEN 0 - ((0 - sum) \div 2) ELSE sum \div 2}

CoreTallied == program = "core_tally" /\ TallyDone /\ revealed_values # <<>>

\* C25: the per-field median orders the values as signed integers: a negative
\* field sorts below every non-negative one, and the midpoint of a negative
\* and a positive central value is their signed midpoint.
C25_SignedMedian ==
    CoreTallied =>
        /\ exit.kind = "success"
        /\ \A i \in 1..ARITY :
             Signed(Published[i]) \in SignedMedians(SignedColumn(Columns[i]))

\* the same statement for an odd number of accepted reveals, where no
\* midpoint is computed
C25_SignedOrderOddCount ==
    CoreTallied /\ Len(revealed_values) % 2 = 1 =>
        /\ exit.kind = "success"
        /\ \A i \in 1..ARITY :
             Signed(Published[i]) \in SignedMedians(SignedColumn(Columns[i]))

\* the same statement for batches without a negative field
C25_MedianOfNonNegative ==
    (/\ CoreTallied
     /\ \A r \in 1..Len(revealed_values) : \A i \in 1..ARITY :
          Signed(revealed_values[r][i]) >= 0)
    => /\ exit.kind = "success"
       /\ \A i \in 1..ARITY :
            Signed(Published[i]) \in SignedMedians(SignedColumn(Columns[i]))

\* three reveals were tallied, one of them with a negative first field
C25_WitnessNegative ==
    /\ CoreTallied /\ Len(revealed_values) = 3
    /\ \E r \in 1..3 : Signed(revealed_values[r][1]) < 0
    /\ exit.kind = "success"

(***************************************************************************)
(* Node output as aggregator input                                         *)
(***************************************************************************)
\* the analytics execution phase has published a signal
SignalPublished ==
    /\ program \in {"core_exec", "core_analytics"}
    /\ epc = "done" /\ exit.kind = "success"

\* what the tally phase of lines 14-43 ends with on a batch of reveals
TallyOf(batch) ==
    LET accepted == SelectSeq([i \in 1..Len(batch) |-> decode_values(batch[i])],
                              LAMBDA decoded : decoded.ok)
    IN  tally_outcome([i \in 1..Len(accepted) |-> accepted[i].values])

\* C26: the payload of a published signal is accepted by the reveal decoder
\* of the tally and decodes to the fair price, the confidence, the maximum
\* safe size and the flags, in that order; a batch of n copies of it tallies
\* to the same payload.
C26_RevealRoundTrip ==
    SignalPublished =>
        /\ decode_values(exit.result) =
             [ok |-> TRUE,
              values |-> <<signal.fair_price, signal.confidence_score,
                           signal.max_safe_execution_size, signal.flags>>]
        /\ \A n \in 1..MaxReveals :
             TallyOf([i \in 1..n |-> exit.result]) = ProcessSuccess(exit.result)

\* a signal with four different values was published
C26_Witness ==
    /\ SignalPublished
    /\ signal.fair_price > signal.confidence_score
    /\ signal.confidence_score > signal.max_safe_execution_size
    /\ signal.max_safe_execution_size > signal.flags
    /\ signal.flags > 0

(***************************************************************************)
(* Token order                                                             *)
(***************************************************************************)
TokenMismatch == Err("token0 mismatch for pair")

\* the three selections for one token0 and one pair of reserves
OrderConsistent(t0, reserves) ==
    LET base_side == base_reserve(reserves, t0, CorePairConfig)
        quote_side == quote_reserve(reserves, t0, CorePairConfig)
        price == price_from_reserves(CorePairConfig, t0, reserves)
    IN  IF to_lowercase(t0) = to_lowercase(CorePairConfig.base)
        THEN /\ base_side = Ok(reserves.reserve0)
             /\ quote_side = Ok(reserves.reserve1)
             /\ price = price_of_sides(CorePairConfig, reserves.reserve0, reserves.reserve1)
        ELSE IF to_lowercase(t0) = to_lowercase(CorePairConfig.quote)
        THEN /\ base_side = Ok(reserves.reserve1)
             /\ quote_side = Ok(reserves.reserve0)
             /\ price = price_of_sides(CorePairConfig, reserves.reserve1, reserves.reserve0)
        ELSE base_side = TokenMismatch /\ quote_side = TokenMismatch /\ price = TokenMismatch

\* C21: price derivation, base-reserve selection and quote-reserve selection
\* take reserve0 as the base side when token0 is the base address, reserve1
\* when it is the quote address (compared without regard to case), and all
\* three fail with the token mismatch when it is neither.
C21_TokenOrderConsistent ==
    /\ CoreRun /\ latest_reserves # NoReserves => OrderConsistent(token0, latest_reserves)
    /\ CoreRun /\ reserves_24h # NoReserves => OrderConsistent(token0, reserves_24h)

\* token0 is the quote address, the reserves differ, and the run used all
\* three selections
C21_Witness ==
    /\ CoreRun /\ IsQuote(CorePairConfig, token0)
    /\ latest_reserves # NoReserves
    /\ latest_reserves.reserve0 # latest_reserves.reserve1
    /\ signal.stage = 7

\* token0 is neither address and the reserves were read
C21_WitnessMismatch ==
    /\ CoreRun /\ ~Resolved(CorePairConfig, token0) /\ token0 # <<>>
    /\ latest_reserves # NoReserves
    /\ exit = ProcessError("token0 mismatch for pair")

(***************************************************************************)
(* Concentrated-liquidity price                                            *)
(***************************************************************************)
\* floor(x * m / d) over unbounded integers with its remainder, every
\* quotient above U128_MAX given as U128_MAX + 1
RECURSIVE MulDivCapped(_, _, _)
MulDivCapped(x, m, d) ==
    IF m = 0 THEN [q |-> 0, r |-> 0]
    ELSE LET h == MulDivCapped(x, m \div 2, d)
             t == 2 * h.r + (m % 2) * x
         IN  [q |-> Min(2 * h.q + t \div d, U128_MAX + 1), r |-> t % d]

\* floor(sqrt_price^2 * SCALE * 10^base_decimals / (2^192 * 10^quote_decimals))
ExactV3Price(config, sqrt_price_x96) ==
    MulDivCapped(sqrt_price_x96 * SCALE * Pow10(config.base_decimals),
                 sqrt_price_x96,
                 q192 * Pow10(config.quote_decimals)).q

V3BasePriced == FeedV3Priced /\ IsBase(feed_config, token0)

V3ExactOutcome ==
    LET exact == ExactV3Price(feed_config, latest_reserves.sqrt_price_x96) IN
    IF exact > U128_MAX THEN exit = ReturnedErr("Value exceeds u128 range")
    ELSE exit = ProcessSuccess(to_le_bytes(exact))

\* C22: with token0 the base token, the price derived from a square-root
\* price word is the exact floor of sqrt_price^2 * SCALE * 10^base_decimals /
\* (2^192 * 10^quote_decimals) when that fits 128 bits, and the range error
\* otherwise; nothing is clamped.
C22_V3ExactOrRangeError == V3BasePriced => V3ExactOutcome

\* the same statement for square-root prices whose scaled square stays
\* within 256 bits
C22_V3ExactWithoutSaturation ==
    /\ V3BasePriced
    /\ latest_reserves.sqrt_price_x96 <= 2 * Q96
    => V3ExactOutcome

\* a square-root price of twice the fixed-point base was priced
C22_WitnessUnsaturated ==
    /\ V3BasePriced /\ latest_reserves.sqrt_price_x96 = 2 * Q96
    /\ exit = ProcessSuccess(to_le_bytes(4 * SCALE))

(***************************************************************************)
(* Remote call chain of the analytics pipeline                             *)
(***************************************************************************)
\* a call that failed: the exchange was rejected or timed out, the body is
\* not JSON, the reply carries an RPC error, or it carries no result
CallFailed(reply) == reply.status # "json" \/ reply.has_error \/ ~reply.has_result

\* the same without the RPC error of the block-number call, the second call
CallFailedUnlessBlockError(i, reply) ==
    IF i = 2 THEN reply.status # "json" \/ ~reply.has_result ELSE CallFailed(reply)

\* token0, block number, reserves at the latest block, reserves 24h earlier
CallChain ==
    << EthCall(CorePairConfig.pair, SELECTOR_TOKEN0, "latest"),
       EthBlockNumber,
       EthCall(CorePairConfig.pair, SELECTOR_GET_RESERVES, latest_block),
       EthCall(CorePairConfig.pair, SELECTOR_GET_RESERVES,
               saturating_sub(latest_block, BLOCKS_24H_ESTIMATE)) >>

\* the calls issued so far are a prefix of the chain, one reply each
ChainPrefix ==
    /\ Len(rpc_log) <= Len(CallChain)
    /\ Len(rpc_replies) = Len(rpc_log)
    /\ rpc_log = SubSeq(CallChain, 1, Len(rpc_log))

\* a failed call is the last call and the run has ended with the failure signal
StopsAt(i) ==
    /\ i = Len(rpc_log)
    /\ epc = "done"
    /\ exit.kind = "error" /\ exit.msg # ""

\* both snapshots are priced with the token0 read in this run
SamePricing ==
    /\ latest_reserves # NoReserves
         => CoreHolds(price_from_reserves(CorePairConfig, token0, latest_reserves), spot_now)
    /\ reserves_24h # NoReserves
         => CoreHolds(price_from_reserves(CorePairConfig, token0, reserves_24h), price_24h)

\* C23: the analytics execution phase issues token0, block number, reserves
\* at the latest block and reserves at the 24h-earlier block in that order,
\* each at most once; after a failed call (rejected or timed out, RPC error,
\* missing result) no later call is issued and the run ends with the failure
\* signal; both snapshots are priced with the same token0 and block height.
C23_SequentialChain ==
    CoreRun =>
      /\ ChainPrefix
      /\ \A i \in 1..Len(rpc_replies) : CallFailed(rpc_replies[i]) => StopsAt(i)
      /\ SamePricing

\* the same statement, the RPC error of the block-number reply left aside
C23_SequentialChainUnlessBlockError ==
    CoreRun =>
      /\ ChainPrefix
      /\ \A i \in 1..Len(rpc_replies) :
           CallFailedUnlessBlockError(i, rpc_replies[i]) => StopsAt(i)
      /\ SamePricing

\* a signal was published after a block-number reply carrying an RPC error
C23_WitnessErrorIgnored ==
    /\ CoreRun /\ Len(rpc_replies) = 4
    /\ rpc_replies[2].has_error
    /\ exit.kind = "success"

(***************************************************************************)
(* Starter kit: the execution payload as the reveal of the tally           *)
(***************************************************************************)
\* the tally phase received the payload of the program's own execution phase
OwnRevealReceived == program = "starter_tally" /\ epc = "done"

OwnRevealTallied == OwnRevealReceived /\ tpc = "done"

\* C29: the payload the execution phase ends with on success (the JSON record
\* of pair_address, token0 and reserves_result) is accepted by the tally phase
\* of the same program as its single reveal.
C29_OwnRevealAccepted ==
    OwnRevealReceived =>
        /\ Len(reveals) = 1
        /\ HttpFetchResponse_from_slice(reveals[1]).ok

\* a run of the program with replication factor 1 never ends its tally with
\* a result: the tally returns an error for the program's own payload
C29_OwnRevealRejected ==
    OwnRevealTallied => exit.kind = "returned_err"

\* the three calls succeeded, the record was handed to the tally and the
\* tally refused it
C29_WitnessRejected ==
    /\ OwnRevealTallied
    /\ replication_factor = 1
    /\ Len(rpc_log) = 3
    /\ reveals = <<RpcPayload_to_vec(pair, token0, Prefix0x \o <<48, 49, 48, 50>>)>>
    /\ exit = ReturnedErr("serde_json: not an HttpFetchResponse")

(***************************************************************************)
(* Starter kit: the pool selected by the tally                             *)
(***************************************************************************)
\* the reveal passed lines 26-47 of the tally
PoolsRead(batch) ==
    /\ Len(batch) = 1
    /\ HttpFetchResponse_from_slice(batch[1]).ok
    /\ is_ok(batch[1].object)
    /\ VvsPairsResponse_from_slice(batch[1].object.bytes).ok

\* the selection loop has run
PoolSelected ==
    /\ program = "starter_tally" /\ tpc = "done"
    /\ PoolsRead(reveals)
    /\ exit # ReturnedErr("get_unfiltered_reveals")

\* the WCRO/USDC pools whose liquidity parses, and those of greatest liquidity
Eligible(data) ==
    { k \in DOMAIN data :
        /\ data[k].base_symbol = TARGET_BASE_SYMBOL
        /\ data[k].quote_symbol = TARGET_QUOTE_SYMBOL
        /\ parse_decimal_to_u128(data[k].liquidity, LIQUIDITY_DECIMALS).some }

LiquidityOf(data, k) == parse_decimal_to_u128(data[k].liquidity, LIQUIDITY_DECIMALS).v

Greatest(data) ==
    { k \in Eligible(data) : \A j \in Eligible(data) : LiquidityOf(data, j) <= LiquidityOf(data, k) }

\* what the tally ends with when the pool `k` is the selected one
OutcomeFor(data, k) ==
    LET price_scaled == parse_decimal_to_u128(data[k].price, PRICE_DECIMALS) IN
    IF price_scaled.some THEN ProcessSuccess(<<price_scaled.v>>)
    ELSE ReturnedErr("Failed to parse WCRO/USD price")

\* C30: the result of the tally does not depend on the order in which the
\* pools are visited: every order gives the result the run ended with, also
\* when several pools share the greatest liquidity.
C30_OrderIndependent ==
    PoolSelected =>
        \A order \in IterationOrders(response_data_of(reveals)) :
            tally_selected(response_data_of(reveals), order) = exit

\* the result is that of a pool of greatest liquidity, and the error when no
\* pool is eligible
C30_GreatestLiquiditySelected ==
    PoolSelected =>
        LET data == response_data_of(reveals) IN
        IF Eligible(data) = {}
        THEN exit = ReturnedErr("No WCRO/USDC pool found in VVS response")
        ELSE \E k \in Greatest(data) : exit = OutcomeFor(data, k)

\* when one pool has strictly the greatest liquidity the order does not matter
C30_OrderIndependentStrictMaximum ==
    (PoolSelected /\ Cardinality(Greatest(response_data_of(reveals))) = 1) =>
        \A order \in IterationOrders(response_data_of(reveals)) :
            tally_selected(response_data_of(reveals), order) = exit

\* two pools tie at the greatest liquidity with different prices, and the run
\* ended with the price of one of them
C30_WitnessTie ==
    /\ PoolSelected
    /\ \E k, j \in Greatest(response_data_of(reveals)) :
         /\ OutcomeFor(response_data_of(reveals), k) = ProcessSuccess(<<1>>)
         /\ OutcomeFor(response_data_of(reveals), j) = ProcessSuccess(<<2>>)
    /\ exit = ProcessSuccess(<<2>>)

InitExec == InitCoreExec \/ InitFeed \/ InitCaplight
NextExec == NextCoreExec \/ NextFeed \/ NextCaplight
SpecExec == InitExec /\ [][NextExec]_vars

============================================================================
